---- MODULE Spec2Model ----
(***************************************************************************)
(* Token-bucket-aware Keepa API client: TokenManager (token coordinator)   *)
(* and Client (DoRequest/GetRawData, PostRawData, PostRawDataWithParams).   *)
(* Source: src/internal/api/keepa/README.md (package api).                  *)
(*                                                                         *)
(* Durations and instants are integers counted in milliseconds.            *)
(* One fetch call is modelled step by step; the responses of the other     *)
(* callers that share the TokenManager arrive through its public update    *)
(* methods at any moment.                                                   *)
(***************************************************************************)
EXTENDS Integers, Sequences, FiniteSets, TLC

\* ------------------------------------------------------------------------
\* Time units (time.Duration, resolution of the model: one millisecond)
\* ------------------------------------------------------------------------
Millisecond == 1
Second == 1000
Minute == 60000

\* NewTokenManager defaults
DefaultMinTokensThreshold == 5
DefaultMaxWaitTime == 60 * Minute
\* time.NewTicker(1 * time.Second) in WaitIfNeeded
TickerPeriod == 1 * Second
\* "if remainingWait < 2*time.Second" in WaitIfNeeded
ShortWait == 2 * Second

\* ------------------------------------------------------------------------
\* Bounds of the model
\* ------------------------------------------------------------------------
\* the clock stops advancing at this instant
MaxTime == 4000
\* number of 429 answers one fetch call may receive
MaxRetries == 2
\* length of the longest list handed to extractASINCodes
MaxLen == 3
\* number of tasks configured for one API in keepa queries
MaxTasks == 2
\* number of task runs the cron engine starts
MaxRuns == 2
\* number of calls of Scheduler.Start
MaxStarts == 2
\* number of records in the keepa_asins collection
MaxRecords == 2
\* number of root ids in a request for a category tree
MaxRoots == 2
\* number of children a category lists
MaxChildren == 1

\* values the server reports
TokensLeftVals == {-3, 5}
RefillRateVals == {3}
RefillInMsVals == {1500, 3000}
\* configuration values handed to NewTokenManager
MinTokensThresholdCfg == {0, 6}
MaxWaitTimeCfg == {0 - 1000, 0, 1500}
\* HTTP status codes the server answers with
StatusCodes == {200, 204, 301, 429, 500}

\* ------------------------------------------------------------------------
\* Response bodies.  A body is either not JSON at all (valid = FALSE) or a
\* JSON object whose token fields are absent, a number, or a value of
\* another JSON type (string, null, ...).
\* ------------------------------------------------------------------------
AbsentF == [k |-> "absent", v |-> 0]
OtherF == [k |-> "other", v |-> 0]
NumF(n) == [k |-> "num", v |-> n]
FieldOf(S) == {AbsentF} \cup {NumF(n) : n \in S}

InvalidBody == [valid |-> FALSE, tokensLeft |-> AbsentF, refillRate |-> AbsentF, refillIn |-> AbsentF]
ObjectBodies == [valid : {TRUE}, tokensLeft : FieldOf(TokensLeftVals),
                 refillRate : FieldOf(RefillRateVals), refillIn : FieldOf(RefillInMsVals)]
\* an object whose token fields are all of another type
WrongTypeBody == [valid |-> TRUE, tokensLeft |-> OtherF, refillRate |-> OtherF, refillIn |-> OtherF]
Bodies == {InvalidBody, WrongTypeBody} \cup ObjectBodies

Shapes == {"GET", "POST", "POSTParams"}

\* ------------------------------------------------------------------------
\* Goroutines that use one TokenManager at the same time: Writers call
\* UpdateFromResponse or UpdateFromTokenInfo, Readers call WaitIfNeeded,
\* whose first statement is ShouldWait
\* ------------------------------------------------------------------------
Writers == {"w1", "w2"}
Readers == {"r1", "r2"}
Threads == Writers \cup Readers
\* the bodies the concurrent updates are made from
LockBodies == {InvalidBody,
               [valid |-> TRUE, tokensLeft |-> NumF(5), refillRate |-> NumF(3), refillIn |-> NumF(3000)],
               [valid |-> TRUE, tokensLeft |-> NumF(0 - 3), refillRate |-> NumF(3), refillIn |-> AbsentF]}
\* sync.RWMutex with no holder
Unlocked == [writer |-> "none", readers |-> {}]
\* a goroutine that has not called yet
IdleThread == [pc |-> "idle", kind |-> "none", body |-> InvalidBody, todo |-> <<>>,
               tl |-> 0, tl2 |-> 0, rr |-> 0, ri |-> 0, read |-> {}, res |-> <<FALSE, 0>>]

VARIABLES
    now,                 \* time.Now()
    \* TokenManager
    tokensLeft, refillRate, refillIn, lastUpdate,
    minTokensThreshold, maxWaitTime, enableRateLimit,
    \* Client
    accessKey,           \* TRUE iff c.accessKey != ""
    tokenManager,        \* TRUE iff c.tokenManager != nil
    logger,              \* TRUE iff c.logger != nil
    printCurlCommand, printResponseBody,
    \* one fetch call
    pc, shape, ctxDone,
    \* the frame of WaitIfNeeded
    waitSite, waitDeadline, nextTick, sleepUntil, originalCtxCanceled,
    waitErr,             \* what WaitIfNeeded returned last
    \* history of the running wait episode
    waitStart, waitW, refilledSince, shortenedSince,
    \* history of the call
    n429, allRead, observeCalls, observeErr, waitCalls, dispatched, lastResp, result,
    requestCtx,          \* the context of the outgoing request
    episodesSince,       \* wait episodes begun since the last answer arrived
    logged,              \* the log entries of the call that the two print options add
    watchers,            \* goroutines of WaitIfNeeded blocked on the caller's ctx.Done()
    \* sync.RWMutex and the goroutines that call the TokenManager concurrently
    mu, threads, committed

tmVars == <<tokensLeft, refillRate, refillIn, lastUpdate>>
cfgVars == <<minTokensThreshold, maxWaitTime, enableRateLimit, accessKey, tokenManager,
             logger, printCurlCommand, printResponseBody>>
waitVars == <<waitSite, waitDeadline, nextTick, sleepUntil, originalCtxCanceled, waitErr>>
episodeVars == <<waitStart, waitW, refilledSince, shortenedSince>>
callVars == <<n429, allRead, observeCalls, observeErr, waitCalls, dispatched, lastResp, result,
              requestCtx, episodesSince, logged, watchers>>
lockVars == <<mu, threads, committed>>
histVars == <<episodeVars, callVars>>

\* The task framework and the tasks built on the client
VARIABLES
    \* TaskRegistry
    tasks,               \* r.tasks: name -> Task, NoTask where the map has no entry
    registerArg, registerErr,   \* the last call of Register and what it returned
    \* Scheduler
    running,             \* s.running
    cronRunning,         \* the cron engine is started and not stopped
    cronEntries,         \* name -> number of entries the cron engine holds for it
    jobEntries,          \* the keys of s.jobEntries
    schedCtxCancelled,   \* s.cancel() was called
    activeRuns,          \* ids of the task runs that have started and not finished
    runCount,            \* task runs started so far
    startCount,          \* calls of Start that started the engine
    \* the frame of Scheduler.Stop
    stopPc, stopCtxDone, callerCtxDone, woken, stopResult,
    runsAtStop,          \* the runs in flight when Stop was called
    ctxExpiredFirst,     \* Stop's ctx was done while the stop context was not
    \* KeepaRawDataSaver.FetchAndStoreAll
    saverPc, apiIdx, apiConfig, taskIdx,
    attemptedTasks, fetchedTasks, savedTasks,   \* task indices of the API at hand
    failures,            \* kinds of failure met so far in the call
    saverResult,
    \* extractASINCodes
    asins, codes

registryVars == <<tasks, registerArg, registerErr>>
schedVars == <<running, cronRunning, cronEntries, jobEntries, schedCtxCancelled, activeRuns,
               runCount, startCount, stopPc, stopCtxDone, callerCtxDone, woken, stopResult,
               runsAtStop, ctxExpiredFirst>>
saverVars == <<saverPc, apiIdx, apiConfig, taskIdx, attemptedTasks, fetchedTasks, savedTasks,
               failures, saverResult>>
extractVars == <<asins, codes>>
taskVars == <<registryVars, schedVars, saverVars, extractVars>>

\* The command line client, the product task and the category tree handler
VARIABLES
    \* CommandRegistry
    commands,            \* r.commands: name or alias -> Command, NoCommand without entry
    cmdErr,              \* what the last call of Register returned
    \* KeepaFetchProducts over the keepa_asins and keepa_products collections
    asinRecords,         \* the keepa_asins records in the order of created_at
    products,            \* the ASINs of the records saved in keepa_products
    fetchMode,           \* the function called: "batch" or "all"
    fetchPc, fetchErr, batchSize,
    batchSaved,          \* the ASINs whose product the last batch saved
    \* CategoryTreeHandler.BuildCategoryTree
    treePc,
    rootsTodo,           \* the root ids of the request not gone through yet
    visited,             \* the visited map
    fetchCount,          \* id -> number of calls of categorySvc.Fetch for it
    treeNodes,           \* the nodes made, each with its place in the forest
    stack                \* the calls of buildCategoryTreeRecursive under way

cmdVars == <<commands, cmdErr>>
productVars == <<asinRecords, products, fetchMode, fetchPc, fetchErr, batchSize, batchSaved>>
treeVars == <<treePc, rootsTodo, visited, fetchCount, treeNodes, stack>>
toolVars == <<cmdVars, productVars, treeVars>>
compVars == <<taskVars, toolVars>>

vars == <<now, tmVars, cfgVars, pc, shape, ctxDone, waitVars, histVars, lockVars, compVars>>

Max(a, b) == IF a >= b THEN a ELSE b
Min(a, b) == IF a <= b THEN a ELSE b

\* ------------------------------------------------------------------------
\* TokenManager
\* ------------------------------------------------------------------------

\* NewTokenManager: the configuration after the defaults are applied
NewMinTokensThreshold(c) == IF c <= 0 THEN DefaultMinTokensThreshold ELSE c
NewMaxWaitTime(c) == IF c = 0 THEN DefaultMaxWaitTime ELSE c

\* The token fields as a record
TokenState == [tokensLeft |-> tokensLeft, refillRate |-> refillRate,
               refillIn |-> refillIn, lastUpdate |-> lastUpdate]

\* The estimate rounded up to whole minutes
EstimatedWaitTimeCeil(tl, rr, ri, thr) ==
    LET tokensNeeded == thr - tl
    IN IF ri < Second /\ rr > 0 /\ tokensNeeded > 0
       THEN ((tokensNeeded + rr - 1) \div rr) * Minute
       ELSE ri

\* waitTime before the ceiling and the floor are applied: refillIn, or when
\* that is below one second and refillRate > 0 the time refillRate tokens a
\* minute take to bring tokensLeft to the threshold.  The float64 product is
\* truncated by time.Duration(); the model truncates to its millisecond.
EstimatedWaitTime(tl, rr, ri, thr) ==
    LET tokensNeeded == thr - tl
    IN IF ri < Second /\ rr > 0 /\ tokensNeeded > 0
       THEN (tokensNeeded * Minute) \div rr
       ELSE ri

\* ShouldWait with the threshold test written "<=": a state exactly at the
\* threshold waits
ShouldWaitOfInclusive(tl, rr, ri, thr, mw, en) ==
    IF ~en THEN <<FALSE, 0>>
    ELSE IF tl <= thr THEN
        LET estimated == EstimatedWaitTime(tl, rr, ri, thr)
            capped == IF estimated > mw THEN mw ELSE estimated
            waitTime == IF capped < Second THEN Second ELSE capped
        IN <<TRUE, waitTime>>
    ELSE <<FALSE, 0>>

\* ShouldWait without the ceiling maxWaitTime
ShouldWaitOfNoCeiling(tl, rr, ri, thr, mw, en) ==
    IF ~en THEN <<FALSE, 0>>
    ELSE IF tl < thr THEN
        LET estimated == EstimatedWaitTime(tl, rr, ri, thr)
            waitTime == IF estimated < Second THEN Second ELSE estimated
        IN <<TRUE, waitTime>>
    ELSE <<FALSE, 0>>

\* ShouldWait without the floor of one second
ShouldWaitOfNoFloor(tl, rr, ri, thr, mw, en) ==
    IF ~en THEN <<FALSE, 0>>
    ELSE IF tl < thr THEN
        LET estimated == EstimatedWaitTime(tl, rr, ri, thr)
            capped == IF estimated > mw THEN mw ELSE estimated
        IN <<TRUE, capped>>
    ELSE <<FALSE, 0>>

\* ShouldWait on an explicit state; the result is <<shouldWait, waitTime>>
ShouldWaitOf(tl, rr, ri, thr, mw, en) ==
    IF ~en THEN <<FALSE, 0>>
    ELSE IF tl < thr THEN
        LET estimated == EstimatedWaitTime(tl, rr, ri, thr)
            capped == IF estimated > mw THEN mw ELSE estimated
            waitTime == IF capped < Second THEN Second ELSE capped
        IN <<TRUE, waitTime>>
    ELSE <<FALSE, 0>>

ShouldWait == ShouldWaitOf(tokensLeft, refillRate, refillIn,
                           minTokensThreshold, maxWaitTime, enableRateLimit)

\* UpdateFromResponse taking refillIn for seconds
UpdateFromResponseSeconds(body) ==
    IF ~body.valid THEN <<TRUE, TokenState>>
    ELSE <<FALSE,
           [tokensLeft |-> IF body.tokensLeft.k = "num" THEN body.tokensLeft.v ELSE tokensLeft,
            refillRate |-> IF body.refillRate.k = "num" THEN body.refillRate.v ELSE refillRate,
            refillIn |-> IF body.refillIn.k = "num" THEN body.refillIn.v * Second ELSE refillIn,
            lastUpdate |-> now]>>

\* UpdateFromResponse resetting the state when the body is not JSON
UpdateFromResponseResetOnError(body) ==
    IF ~body.valid
    THEN <<TRUE, [tokensLeft |-> 0, refillRate |-> 0, refillIn |-> 0, lastUpdate |-> now]>>
    ELSE <<FALSE,
           [tokensLeft |-> IF body.tokensLeft.k = "num" THEN body.tokensLeft.v ELSE tokensLeft,
            refillRate |-> IF body.refillRate.k = "num" THEN body.refillRate.v ELSE refillRate,
            refillIn |-> IF body.refillIn.k = "num" THEN body.refillIn.v * Millisecond ELSE refillIn,
            lastUpdate |-> now]>>

\* UpdateFromResponse: <<error, new token state>>
UpdateFromResponse(body) ==
    IF ~body.valid THEN <<TRUE, TokenState>>
    ELSE <<FALSE,
           [tokensLeft |-> IF body.tokensLeft.k = "num" THEN body.tokensLeft.v ELSE tokensLeft,
            refillRate |-> IF body.refillRate.k = "num" THEN body.refillRate.v ELSE refillRate,
            refillIn |-> IF body.refillIn.k = "num" THEN body.refillIn.v * Millisecond ELSE refillIn,
            lastUpdate |-> now]>>

\* ParseTokenInfoFromResponse: <<error, TokenInfo>>; fields that are absent
\* or of another type keep the zero value of the struct
ParseTokenInfoFromResponse(body) ==
    IF ~body.valid THEN <<TRUE, [TokensLeft |-> 0, RefillRate |-> 0, RefillIn |-> 0]>>
    ELSE <<FALSE,
           [TokensLeft |-> IF body.tokensLeft.k = "num" THEN body.tokensLeft.v ELSE 0,
            RefillRate |-> IF body.refillRate.k = "num" THEN body.refillRate.v ELSE 0,
            RefillIn |-> IF body.refillIn.k = "num" THEN body.refillIn.v ELSE 0]>>

\* UpdateFromTokenInfo: the new token state
UpdateFromTokenInfo(info) ==
    [tokensLeft |-> info.TokensLeft,
     refillRate |-> info.RefillRate,
     refillIn |-> info.RefillIn * Millisecond,
     lastUpdate |-> now]

\* The update made with the body of a 429 answer (handle429Error and the
\* same lines of DoRequest): <<error, new token state>>
Update429(body) ==
    LET parsed == ParseTokenInfoFromResponse(body)
    IN IF ~parsed[1] THEN <<FALSE, UpdateFromTokenInfo(parsed[2])>>
       ELSE UpdateFromResponse(body)

SetTokenState(ts) ==
    /\ tokensLeft' = ts.tokensLeft
    /\ refillRate' = ts.refillRate
    /\ refillIn' = ts.refillIn
    /\ lastUpdate' = ts.lastUpdate

\* ------------------------------------------------------------------------
\* Requests, responses and results of a fetch call
\* ------------------------------------------------------------------------
NoResult == [kind |-> "none", err |-> "", code |-> 0, body |-> InvalidBody]
Bytes(b) == [kind |-> "bytes", err |-> "", code |-> 0, body |-> b]
Error(e, c) == [kind |-> "error", err |-> e, code |-> c, body |-> InvalidBody]

\* What the server (or the transport) answers to one dispatched request.
\* The status TransportFailure stands for an error of httpClient.Do;
\* readOk = FALSE for a body that io.ReadAll fails to read.
TransportFailure == 0
TooManyRequests == 429
Is2xx(status) == ~(status < 200 \/ status >= 300)
WithBody == {c \in StatusCodes : Is2xx(c) \/ c = TooManyRequests}
Responses ==
    [status : {TransportFailure} \cup (StatusCodes \ WithBody), body : {InvalidBody}, readOk : {TRUE}]
    \cup [status : WithBody, body : Bodies, readOk : {TRUE}]
    \cup [status : WithBody, body : {InvalidBody}, readOk : {FALSE}]
NoResponse == [status |-> 0 - 1, body |-> InvalidBody, readOk |-> TRUE]

\* Request construction: "url" fails in url.JoinPath/url.Parse, "request"
\* fails in json.Marshal/http.NewRequestWithContext
Builds == {"ok", "url", "request"}

\* ------------------------------------------------------------------------
\* The task framework before anything is registered, started or called
\* ------------------------------------------------------------------------
TaskNames == {"a", "b"}
\* the value of a lookup that finds no entry
NoTask == [name |-> "", id |-> 0, enabled |-> FALSE, schedule |-> ""]

\* NewTaskRegistry: an empty map
NewTaskRegistry ==
    /\ tasks = [n \in TaskNames |-> NoTask]
    /\ registerArg = NoTask
    /\ registerErr = "none"

\* NewScheduler: nothing runs, the cron engine has no entry, s.ctx is live
NewScheduler ==
    /\ running = FALSE
    /\ cronRunning = FALSE
    /\ cronEntries = [n \in TaskNames |-> 0]
    /\ jobEntries = {}
    /\ schedCtxCancelled = FALSE
    /\ activeRuns = {}
    /\ runCount = 0
    /\ startCount = 0
    /\ stopPc = "idle"
    /\ stopCtxDone = FALSE
    /\ callerCtxDone = FALSE
    /\ woken = "none"
    /\ stopResult = "none"
    /\ runsAtStop = {}
    /\ ctxExpiredFirst = FALSE

\* the section of an API that FetchAndStoreAll has not read yet
NoApiConfig == [Enabled |-> FALSE, Tasks |-> <<>>]

\* NewKeepaRawDataSaver: FetchAndStoreAll has not been called
NewKeepaRawDataSaver ==
    /\ saverPc = "idle"
    /\ apiIdx = 0
    /\ apiConfig = NoApiConfig
    /\ taskIdx = 0
    /\ attemptedTasks = {}
    /\ fetchedTasks = {}
    /\ savedTasks = {}
    /\ failures = {}
    /\ saverResult = "none"

\* extractASINCodes has not been called: the argument (a nil slice here)
\* and no returned value
NoCodes == [returned |-> FALSE, value |-> <<>>]
NoExtract ==
    /\ asins = [isNil |-> TRUE, items |-> <<>>]
    /\ codes = NoCodes

\* the names and aliases of commands
CommandNames == {"get", "g", "ls"}
\* the value of a lookup in r.commands that finds no entry
NoCommand == [name |-> "", aliases |-> <<>>]

\* NewCommandRegistry: an empty map
NewCommandRegistry ==
    /\ commands = [n \in CommandNames |-> NoCommand]
    /\ cmdErr = "none"

\* NewKeepaFetchProducts over empty collections, nothing called
NewKeepaFetchProducts ==
    /\ asinRecords = <<>>
    /\ products = {}
    /\ fetchMode = "none"
    /\ fetchPc = "idle"
    /\ fetchErr = "none"
    /\ batchSize = 0
    /\ batchSaved = {}

\* the ids of categories
CategoryIDs == {1, 2, 3}

\* NewCategoryTreeHandler: no request under way
NewCategoryTreeHandler ==
    /\ treePc = "idle"
    /\ rootsTodo = <<>>
    /\ visited = {}
    /\ fetchCount = [id \in CategoryIDs |-> 0]
    /\ treeNodes = <<>>
    /\ stack = <<>>

NoTools ==
    /\ NewCommandRegistry
    /\ NewKeepaFetchProducts
    /\ NewCategoryTreeHandler

\* ------------------------------------------------------------------------
\* Initial state: NewTokenManager and NewClient
\* ------------------------------------------------------------------------
InitOpts(key, tm, thr, mw, en, lg, curl, body) ==
    /\ now = 0
    /\ tokensLeft = 0
    /\ refillRate = 0
    /\ refillIn = 0
    /\ lastUpdate = 0
    /\ minTokensThreshold = NewMinTokensThreshold(thr)
    /\ maxWaitTime = NewMaxWaitTime(mw)
    /\ enableRateLimit = en
    /\ accessKey = key
    /\ tokenManager = tm
    /\ logger = lg
    /\ printCurlCommand = curl
    /\ printResponseBody = body
    /\ pc = "idle"
    /\ shape = "GET"
    /\ ctxDone = FALSE
    /\ waitSite = "entry"
    /\ waitDeadline = 0
    /\ nextTick = 0
    /\ sleepUntil = 0
    /\ originalCtxCanceled = FALSE
    /\ waitErr = "none"
    /\ waitStart = 0
    /\ waitW = 0
    /\ refilledSince = FALSE
    /\ shortenedSince = FALSE
    /\ n429 = 0
    /\ allRead = TRUE
    /\ observeCalls = 0
    /\ observeErr = "none"
    /\ waitCalls = 0
    /\ dispatched = 0
    /\ lastResp = NoResponse
    /\ result = NoResult
    /\ requestCtx = "none"
    /\ episodesSince = 0
    /\ logged = {}
    /\ watchers = 0
    /\ mu = Unlocked
    /\ threads = [t \in Threads |-> IdleThread]
    /\ committed = {[tokensLeft |-> 0, refillRate |-> 0, refillIn |-> 0]}

\* A client with a logger and both print options at their default, off
InitWith(key, tm, thr, mw, en) ==
    /\ InitOpts(key, tm, thr, mw, en, TRUE, FALSE, FALSE)
    /\ NewTaskRegistry
    /\ NewScheduler
    /\ NewKeepaRawDataSaver
    /\ NoExtract
    /\ NoTools

\* Configurations that differ only in a value nothing reads are taken once:
\* a disabled or absent TokenManager never reads the threshold or the
\* ceiling, and a client without credential never gets an answer
Init ==
    \E key \in BOOLEAN, tm \in BOOLEAN, thr \in MinTokensThresholdCfg,
       mw \in MaxWaitTimeCfg, en \in BOOLEAN :
        /\ (tm /\ en /\ key) \/ (thr = 0 /\ mw = 0)
        /\ tm \/ en
        /\ key \/ en
        /\ InitWith(key, tm, thr, mw, en)

ClearEpisode ==
    /\ waitStart' = 0
    /\ waitW' = 0
    /\ refilledSince' = FALSE
    /\ shortenedSince' = FALSE

\* The call is in the request function the caller invoked, whose ctx is the
\* caller's: before the first 429, or in the wait that follows it; every
\* retry runs in a call of its own with retryCtx
OuterFrame ==
    \/ n429 = 0 /\ pc \in {"preWait", "waiting", "sleeping", "send"}
    \/ n429 = 1 /\ (pc = "postWait" \/ (pc \in {"waiting", "sleeping"} /\ waitSite = "after429"))

\* A caller invokes GetRawData, PostRawData or PostRawDataWithParams
StartFetch(s) ==
    /\ pc = "idle"
    /\ pc' = "preWait"
    /\ shape' = s
    /\ ctxDone' = FALSE
    /\ UNCHANGED <<now, tmVars, cfgVars, lockVars, compVars, waitVars, histVars>>

\* The caller's context is cancelled or its deadline passes
CancelCtx ==
    /\ pc \in {"preWait", "waiting", "sleeping", "send", "postWait"}
    /\ ~ctxDone
    /\ ctxDone' = TRUE
    /\ watchers' = IF OuterFrame THEN 0 ELSE watchers
    /\ UNCHANGED <<now, tmVars, cfgVars, lockVars, compVars, pc, shape, waitVars, episodeVars,
                   n429, allRead, observeCalls, observeErr, waitCalls, dispatched, lastResp,
                   result, requestCtx, episodesSince, logged>>

\* ------------------------------------------------------------------------
\* TokenManager.WaitIfNeeded
\* ------------------------------------------------------------------------

\* WaitIfNeeded returns nil to its call site: the entry of the request
\* function goes on to send the request; the 429 branch calls the request
\* function again with retryCtx, a fresh context
WaitReturnWith(err) ==
    /\ IF waitSite' = "entry"
       THEN pc' = "send" /\ ctxDone' = ctxDone
       ELSE pc' = "preWait" /\ ctxDone' = FALSE
    /\ waitDeadline' = 0
    /\ nextTick' = 0
    /\ sleepUntil' = 0
    /\ originalCtxCanceled' = FALSE
    /\ waitErr' = err

\* "return nil"
WaitReturn == WaitReturnWith("nil")

\* The call of WaitIfNeeded and its first ShouldWait
WaitIfNeededEntry ==
    /\ pc \in {"preWait", "postWait"}
    /\ waitSite' = IF pc = "preWait" THEN "entry" ELSE "after429"
    /\ IF ~tokenManager
       THEN /\ WaitReturnWith(waitErr)
            /\ UNCHANGED <<episodeVars, waitCalls, episodesSince, watchers>>
       ELSE /\ waitCalls' = waitCalls + 1
            /\ IF ~ShouldWait[1]
               THEN /\ WaitReturn
                    /\ UNCHANGED <<episodeVars, episodesSince, watchers>>
               ELSE /\ pc' = "waiting"
                    /\ episodesSince' = episodesSince + 1
                    /\ watchers' = IF OuterFrame /\ ~ctxDone THEN watchers + 1 ELSE watchers
                    /\ waitDeadline' = now + ShouldWait[2]
                    /\ nextTick' = now + TickerPeriod
                    /\ sleepUntil' = 0
                    /\ originalCtxCanceled' = FALSE
                    /\ waitStart' = now
                    /\ waitW' = ShouldWait[2]
                    /\ refilledSince' = FALSE
                    /\ shortenedSince' = FALSE
                    /\ UNCHANGED <<ctxDone, waitErr>>
    /\ UNCHANGED <<now, tmVars, cfgVars, lockVars, compVars, shape, n429, allRead, observeCalls, observeErr,
                   dispatched, lastResp, result, requestCtx, logged>>

\* case <-waitCtx.Done() going back into the loop while the tokens have
\* not recovered
WaitCtxDeadlineKeepsWaiting ==
    /\ pc = "waiting"
    /\ now >= waitDeadline
    /\ UNCHANGED waitSite
    /\ IF ShouldWait[1]
       THEN UNCHANGED <<pc, ctxDone, waitDeadline, nextTick, sleepUntil, originalCtxCanceled,
                        waitErr, episodeVars>>
       ELSE WaitReturn /\ ClearEpisode
    /\ UNCHANGED <<now, tmVars, cfgVars, lockVars, compVars, shape, callVars>>

\* case <-waitCtx.Done() returning the deadline's error when the tokens
\* have not recovered
WaitCtxDeadlineExceeded ==
    /\ pc = "waiting"
    /\ now >= waitDeadline
    /\ UNCHANGED waitSite
    /\ WaitReturnWith(IF ShouldWait[1] THEN "context deadline exceeded" ELSE "nil")
    /\ ClearEpisode
    /\ UNCHANGED <<now, tmVars, cfgVars, lockVars, compVars, shape, callVars>>

\* case <-waitCtx.Done(): the episode's own deadline; returns nil whether
\* or not the tokens have recovered
WaitCtxDeadline ==
    /\ pc = "waiting"
    /\ now >= waitDeadline
    /\ UNCHANGED waitSite
    /\ WaitReturn
    /\ ClearEpisode
    /\ UNCHANGED <<now, tmVars, cfgVars, lockVars, compVars, shape, callVars>>

\* case <-originalCtxDone honouring the caller's cancellation: the wait ends
WaitOriginalCtxDoneReturns ==
    /\ pc = "waiting"
    /\ ctxDone
    /\ UNCHANGED waitSite
    /\ WaitReturn
    /\ ClearEpisode
    /\ UNCHANGED <<now, tmVars, cfgVars, lockVars, compVars, shape, callVars>>

\* case <-originalCtxDone: the caller's context is done; logged once, the
\* loop goes on
WaitOriginalCtxDone ==
    /\ pc = "waiting"
    /\ ctxDone
    /\ originalCtxCanceled' = TRUE
    /\ UNCHANGED <<now, tmVars, cfgVars, lockVars, compVars, pc, shape, ctxDone, waitSite, waitDeadline, nextTick,
                   sleepUntil, waitErr, histVars>>

\* case <-ticker.C that leaves the return to the deadline
WaitTickNoEarlyReturn ==
    /\ pc = "waiting"
    /\ now >= nextTick
    /\ UNCHANGED waitSite
    /\ nextTick' = nextTick + TickerPeriod
    /\ UNCHANGED <<pc, ctxDone, waitDeadline, sleepUntil, originalCtxCanceled, waitErr,
                   episodeVars>>
    /\ UNCHANGED <<now, tmVars, cfgVars, lockVars, compVars, shape, callVars>>

\* case <-ticker.C deciding from the wait computed when the episode started
WaitTickFromSnapshot ==
    /\ pc = "waiting"
    /\ now >= nextTick
    /\ UNCHANGED waitSite
    /\ IF ~ShouldWait[1]
       THEN /\ WaitReturn
            /\ ClearEpisode
       ELSE IF waitW < ShortWait
       THEN /\ pc' = "sleeping"
            /\ sleepUntil' = now + waitW
            /\ UNCHANGED <<ctxDone, waitDeadline, nextTick, originalCtxCanceled, waitErr,
                           episodeVars>>
       ELSE /\ nextTick' = nextTick + TickerPeriod
            /\ UNCHANGED <<pc, ctxDone, waitDeadline, sleepUntil, originalCtxCanceled, waitErr,
                           episodeVars>>
    /\ UNCHANGED <<now, tmVars, cfgVars, lockVars, compVars, shape, callVars>>

\* case <-ticker.C: the recheck once per second
WaitTick ==
    /\ pc = "waiting"
    /\ now >= nextTick
    /\ UNCHANGED waitSite
    /\ IF ~ShouldWait[1]
       THEN /\ WaitReturn
            /\ ClearEpisode
       ELSE IF ShouldWait[2] < ShortWait
       THEN /\ pc' = "sleeping"
            /\ sleepUntil' = now + ShouldWait[2]
            /\ UNCHANGED <<ctxDone, waitDeadline, nextTick, originalCtxCanceled, waitErr,
                           episodeVars>>
       ELSE /\ nextTick' = nextTick + TickerPeriod
            /\ UNCHANGED <<pc, ctxDone, waitDeadline, sleepUntil, originalCtxCanceled, waitErr,
                           episodeVars>>
    /\ UNCHANGED <<now, tmVars, cfgVars, lockVars, compVars, shape, callVars>>

\* time.Sleep(remainingWait) is over; return nil
SleepDone ==
    /\ pc = "sleeping"
    /\ now >= sleepUntil
    /\ UNCHANGED waitSite
    /\ WaitReturn
    /\ ClearEpisode
    /\ UNCHANGED <<now, tmVars, cfgVars, lockVars, compVars, shape, callVars>>

\* ------------------------------------------------------------------------
\* Client: one HTTP round trip and the handling of its outcome
\* (DoRequest + GetRawData, PostRawData, PostRawDataWithParams)
\* ------------------------------------------------------------------------

\* The call ends with a value for the caller
Finish(res) ==
    /\ pc' = "done"
    /\ result' = res

\* An error before anything is sent
FailBeforeSend(e) ==
    /\ Finish(Error(e, 0))
    /\ UNCHANGED <<tmVars, ctxDone, n429, allRead, observeCalls, observeErr, dispatched, lastResp,
                   episodesSince>>

\* httpClient.Do returned an error
HandleTransportError ==
    /\ Finish(Error("transport", 0))
    /\ UNCHANGED <<tmVars, ctxDone, n429, allRead, observeCalls, observeErr>>

\* A 5xx status retried like a 429
HandleStatusErrorRetry(r) ==
    /\ IF r.status >= 500
       THEN /\ pc' = "preWait"
            /\ UNCHANGED result
       ELSE Finish(Error("status", r.status))
    /\ UNCHANGED <<tmVars, ctxDone, n429, allRead, observeCalls, observeErr>>

\* A status outside 2xx other than 429
HandleStatusError(r) ==
    /\ Finish(Error("status", r.status))
    /\ UNCHANGED <<tmVars, ctxDone, n429, allRead, observeCalls, observeErr>>

\* Status 429 handed to the caller after the update, without retry
Handle429GiveUp(r) ==
    /\ n429' = n429 + 1
    /\ allRead' = (allRead /\ r.readOk)
    /\ IF r.readOk /\ tokenManager
       THEN /\ SetTokenState(Update429(r.body)[2])
            /\ observeCalls' = observeCalls + 1
            /\ observeErr' = IF Update429(r.body)[1] THEN "error" ELSE "nil"
       ELSE UNCHANGED <<tmVars, observeCalls, observeErr>>
    /\ Finish(Error("status", r.status))
    /\ UNCHANGED ctxDone

\* Status 429 that goes to the wait without updating the TokenManager
Handle429NoUpdate(r) ==
    /\ n429' = n429 + 1
    /\ allRead' = (allRead /\ r.readOk)
    /\ UNCHANGED <<tmVars, observeCalls, observeErr>>
    /\ IF tokenManager
       THEN /\ pc' = "postWait"
            /\ UNCHANGED <<ctxDone, result>>
       ELSE IF shape = "GET"
       THEN /\ Finish(Error("status", r.status))
            /\ UNCHANGED ctxDone
       ELSE /\ pc' = "preWait"
            /\ ctxDone' = FALSE
            /\ UNCHANGED result

\* Status 429: the branch of DoRequest, and handle429Error for the two POST
\* shapes, up to the call of WaitIfNeeded
Handle429(r) ==
    /\ n429' = n429 + 1
    /\ allRead' = (allRead /\ r.readOk)
    /\ IF r.readOk /\ tokenManager
       THEN /\ SetTokenState(Update429(r.body)[2])
            /\ observeCalls' = observeCalls + 1
            /\ observeErr' = IF Update429(r.body)[1] THEN "error" ELSE "nil"
       ELSE UNCHANGED <<tmVars, observeCalls, observeErr>>
    /\ IF tokenManager
       THEN /\ pc' = "postWait"
            /\ UNCHANGED <<ctxDone, result>>
       ELSE IF shape = "GET"
       THEN /\ Finish(Error("status", r.status))
            /\ UNCHANGED ctxDone
       ELSE /\ pc' = "preWait"
            /\ ctxDone' = FALSE
            /\ UNCHANGED result

\* Status 2xx returned without updating the TokenManager
HandleSuccessNoUpdate(r) ==
    IF ~r.readOk
    THEN /\ Finish(Error("read", 0))
         /\ UNCHANGED <<tmVars, ctxDone, n429, allRead, observeCalls, observeErr>>
    ELSE /\ Finish(Bytes(r.body))
         /\ UNCHANGED <<tmVars, ctxDone, n429, allRead, observeCalls, observeErr>>

\* Status 2xx whose failed update fails the call
HandleSuccessFailOnParse(r) ==
    IF ~r.readOk
    THEN /\ Finish(Error("read", 0))
         /\ UNCHANGED <<tmVars, ctxDone, n429, allRead, observeCalls, observeErr>>
    ELSE /\ IF tokenManager
            THEN /\ SetTokenState(UpdateFromResponse(r.body)[2])
                 /\ observeCalls' = observeCalls + 1
                 /\ observeErr' = IF UpdateFromResponse(r.body)[1] THEN "error" ELSE "nil"
                 /\ IF UpdateFromResponse(r.body)[1]
                    THEN Finish(Error("parse", 0))
                    ELSE Finish(Bytes(r.body))
            ELSE /\ UNCHANGED <<tmVars, observeCalls, observeErr>>
                 /\ Finish(Bytes(r.body))
         /\ UNCHANGED <<ctxDone, n429, allRead>>

\* Status 2xx where the log of the response body takes the place of the
\* update of the TokenManager
HandleSuccessLogOrUpdate(r) ==
    IF ~r.readOk
    THEN /\ Finish(Error("read", 0))
         /\ UNCHANGED <<tmVars, ctxDone, n429, allRead, observeCalls, observeErr>>
    ELSE /\ IF tokenManager /\ ~(logger /\ printResponseBody)
            THEN /\ SetTokenState(UpdateFromResponse(r.body)[2])
                 /\ observeCalls' = observeCalls + 1
                 /\ observeErr' = IF UpdateFromResponse(r.body)[1] THEN "error" ELSE "nil"
            ELSE UNCHANGED <<tmVars, observeCalls, observeErr>>
         /\ Finish(Bytes(r.body))
         /\ UNCHANGED <<ctxDone, n429, allRead>>

\* Status 2xx: the body is read, the TokenManager is updated from it and
\* the bytes are returned
HandleSuccess(r) ==
    IF ~r.readOk
    THEN /\ Finish(Error("read", 0))
         /\ UNCHANGED <<tmVars, ctxDone, n429, allRead, observeCalls, observeErr>>
    ELSE /\ IF tokenManager
            THEN /\ SetTokenState(UpdateFromResponse(r.body)[2])
                 /\ observeCalls' = observeCalls + 1
                 /\ observeErr' = IF UpdateFromResponse(r.body)[1] THEN "error" ELSE "nil"
            ELSE UNCHANGED <<tmVars, observeCalls, observeErr>>
         /\ Finish(Bytes(r.body))
         /\ UNCHANGED <<ctxDone, n429, allRead>>

\* requestCtx with the caller's context kept although it is done
RequestCtxOfCaller == "ctx"

\* requestCtx := ctx, replaced by a fresh context with the client's timeout
\* when ctx.Done() is closed
RequestCtx == IF ctxDone THEN "fresh" ELSE "ctx"

\* the credential check skipped
MissingCredentialIgnored == FALSE

\* c.accessKey == ""
MissingCredential == ~accessKey

\* The log entries that exist only with printCurlCommand or
\* printResponseBody: the Info entry with the curl command before the
\* request is sent, the curl_command field of the Error entry of a
\* transport failure or of a status that ends the call, and the Info entry
\* with the formatted body of a 2xx answer
DiagnosticLogs(build, r) ==
    IF ~logger \/ build # "ok" \/ ~accessKey THEN {}
    ELSE (IF printCurlCommand THEN {"sending HTTP request: curl_command"} ELSE {})
         \cup (IF printCurlCommand /\ r.status = TransportFailure
               THEN {"HTTP request failed: curl_command"} ELSE {})
         \cup (IF /\ printCurlCommand
                  /\ r.status # TransportFailure
                  /\ ~Is2xx(r.status)
                  /\ r.status = TooManyRequests => (~tokenManager /\ shape = "GET")
               THEN {"HTTP response error: curl_command"} ELSE {})
         \cup (IF printResponseBody /\ Is2xx(r.status) /\ r.readOk
               THEN {"Keepa API response received: response_body"} ELSE {})

\* The request is built, sent, and its outcome r is handled up to the next
\* access to the TokenManager.  httpClient.Do with a context that is done
\* returns the context's error and sends nothing.
Send(build, r) ==
    /\ pc = "send"
    /\ UNCHANGED <<now, cfgVars, lockVars, compVars, shape, waitVars, episodeVars, waitCalls,
                   watchers>>
    /\ requestCtx' = RequestCtx
    /\ logged' = logged \cup DiagnosticLogs(build, r)
    /\ IF build = "url" THEN FailBeforeSend("build")
       ELSE IF MissingCredential THEN FailBeforeSend("accessKey")
       ELSE IF build = "request" THEN FailBeforeSend("build")
       ELSE IF RequestCtx = "ctx" /\ ctxDone
       THEN /\ r.status = TransportFailure
            /\ HandleTransportError
            /\ UNCHANGED <<dispatched, lastResp, episodesSince>>
       ELSE /\ r.status = TooManyRequests => n429 < MaxRetries
            /\ dispatched' = dispatched + 1
            /\ lastResp' = r
            /\ episodesSince' = 0
            /\ IF r.status = TransportFailure THEN HandleTransportError
               ELSE IF r.status = TooManyRequests THEN Handle429(r)
               ELSE IF ~Is2xx(r.status) THEN HandleStatusError(r)
               ELSE HandleSuccess(r)

\* ------------------------------------------------------------------------
\* The other callers of the same TokenManager
\* ------------------------------------------------------------------------
InEpisode == pc \in {"waiting", "sleeping"}

\* what an update made during the wait episode means for the waiter
NoteObserve(err, ts) ==
    LET sw == ShouldWaitOf(ts.tokensLeft, ts.refillRate, ts.refillIn,
                           minTokensThreshold, maxWaitTime, enableRateLimit)
    IN /\ refilledSince' = (refilledSince \/ (InEpisode /\ ~err /\ ~sw[1]))
       /\ shortenedSince' = (shortenedSince \/ (InEpisode /\ ~err /\ sw[1] /\ sw[2] < ShortWait))

\* Another caller's 2xx answer: tokenManager.UpdateFromResponse(body)
OtherUpdateFromResponse(body) ==
    /\ tokenManager
    /\ pc # "done"
    /\ SetTokenState(UpdateFromResponse(body)[2])
    /\ NoteObserve(UpdateFromResponse(body)[1], UpdateFromResponse(body)[2])
    /\ UNCHANGED <<now, cfgVars, lockVars, compVars, pc, shape, ctxDone, waitVars, waitStart, waitW, callVars>>

\* Another caller's 429 answer: ParseTokenInfoFromResponse, then
\* UpdateFromTokenInfo, or UpdateFromResponse when the parse fails
OtherUpdate429(body) ==
    /\ tokenManager
    /\ pc # "done"
    /\ SetTokenState(Update429(body)[2])
    /\ NoteObserve(Update429(body)[1], Update429(body)[2])
    /\ UNCHANGED <<now, cfgVars, lockVars, compVars, pc, shape, ctxDone, waitVars, waitStart, waitW, callVars>>

\* ------------------------------------------------------------------------
\* The clock.  It moves while the call is blocked in the wait loop, to the
\* instant of the next timer; a timer is handled at its instant.
\* ------------------------------------------------------------------------
NextInstant ==
    IF pc = "waiting" THEN Min(waitDeadline, nextTick) ELSE sleepUntil

\* a clock that refills the tokens as time passes
AdvanceRefills ==
    /\ InEpisode
    /\ NextInstant > now
    /\ NextInstant <= MaxTime
    /\ now' = NextInstant
    /\ tokensLeft' = tokensLeft + 1
    /\ UNCHANGED <<refillRate, refillIn, lastUpdate, cfgVars, lockVars, compVars, pc, shape,
                   ctxDone, waitVars, histVars>>

Advance ==
    /\ InEpisode
    /\ NextInstant > now
    /\ NextInstant <= MaxTime
    /\ now' = NextInstant
    /\ UNCHANGED <<tmVars, cfgVars, lockVars, compVars, pc, shape, ctxDone, waitVars, histVars>>

\* ------------------------------------------------------------------------
\* Specification of one fetch call (any shape, any configuration)
\* ------------------------------------------------------------------------
Next ==
    \/ \E s \in Shapes : StartFetch(s)
    \/ CancelCtx
    \/ WaitIfNeededEntry
    \/ WaitCtxDeadline
    \/ WaitOriginalCtxDone
    \/ WaitTick
    \/ SleepDone
    \/ \E build \in Builds, r \in Responses : Send(build, r)
    \/ Advance

Spec == Init /\ [][Next]_vars

\* ------------------------------------------------------------------------
\* Specification of one fetch call of a client with credential and rate
\* limiting, under every setting of the logger and of the two print options
\* ------------------------------------------------------------------------
InitDiag ==
    \E tm \in BOOLEAN, lg \in BOOLEAN, curl \in BOOLEAN, body \in BOOLEAN :
        /\ InitOpts(TRUE, tm, 6, 1500, TRUE, lg, curl, body)
        /\ NewTaskRegistry
        /\ NewScheduler
        /\ NewKeepaRawDataSaver
        /\ NoExtract
        /\ NoTools

SpecDiag == InitDiag /\ [][Next]_vars

\* ------------------------------------------------------------------------
\* Specification of the coordinator under concurrent updates: a caller that
\* goes through WaitIfNeeded while the answers of other callers update the
\* same TokenManager.  The caller's client has no credential, so that its
\* call ends right after the wait.
\* ------------------------------------------------------------------------
InitWait ==
    \E thr \in MinTokensThresholdCfg, mw \in MaxWaitTimeCfg, en \in BOOLEAN :
        /\ en \/ (thr = 0 /\ mw = 0)
        /\ InitWith(FALSE, TRUE, thr, mw, en)

NextWait ==
    \/ StartFetch("GET")
    \/ CancelCtx
    \/ WaitIfNeededEntry
    \/ WaitCtxDeadline
    \/ WaitOriginalCtxDone
    \/ WaitTick
    \/ SleepDone
    \/ \E build \in Builds, r \in Responses : Send(build, r)
    \/ \E body \in Bodies : OtherUpdateFromResponse(body)
    \/ \E body \in Bodies : OtherUpdate429(body)
    \/ Advance

SpecWait == InitWait /\ [][NextWait]_vars

\* ------------------------------------------------------------------------
\* The reader/writer lock of the TokenManager (mu sync.RWMutex): goroutines
\* that run its methods statement by statement.  A thread's record keeps
\* its position (pc), the update it applies (kind, body, todo) and the
\* fields it has read (tl, ri, rr, and tl2 for tokensNeeded; read names
\* those read so far).
\* ------------------------------------------------------------------------
\* the variables of the fetch call, which these goroutines leave alone
fetchVars == <<cfgVars, compVars, pc, shape, ctxDone, waitVars, histVars>>

\* the assignments of an update in program order
WriteOrder(kind) ==
    IF kind = "response"
    THEN <<"refillRate", "refillIn", "tokensLeft", "lastUpdate">>
    ELSE <<"tokensLeft", "refillRate", "refillIn", "lastUpdate">>

\* the token fields as they stand, without the time stamp
Triple == [tokensLeft |-> tokensLeft, refillRate |-> refillRate, refillIn |-> refillIn]

\* A goroutine calls UpdateFromResponse(body), or ParseTokenInfoFromResponse
\* and UpdateFromTokenInfo with the body of a 429 answer; bytes that are not
\* JSON make both return before the lock is taken
BeginObserve(t, kind, body) ==
    /\ threads[t].pc = "idle"
    /\ threads' = [threads EXCEPT ![t] =
                      [@ EXCEPT !.pc = IF body.valid THEN "lock" ELSE "done",
                                !.kind = kind, !.body = body, !.todo = WriteOrder(kind)]]
    /\ UNCHANGED <<now, tmVars, fetchVars, mu, committed>>

\* tm.mu.Lock() that does not wait for the other holders
AcquireLockNoExclusion(t) ==
    /\ threads[t].pc = "lock"
    /\ mu' = [mu EXCEPT !.writer = t]
    /\ threads' = [threads EXCEPT ![t].pc = "write"]
    /\ UNCHANGED <<now, tmVars, fetchVars, committed>>

\* tm.mu.Lock(): granted when no goroutine holds the lock in either mode
AcquireLock(t) ==
    /\ threads[t].pc = "lock"
    /\ mu = Unlocked
    /\ mu' = [mu EXCEPT !.writer = t]
    /\ threads' = [threads EXCEPT ![t].pc = "write"]
    /\ UNCHANGED <<now, tmVars, fetchVars, committed>>

\* One assignment of the update: the next field of todo gets the value the
\* update gives it (a field UpdateFromResponse does not find keeps its value)
WriteField(t) ==
    /\ threads[t].pc = "write"
    /\ LET f == Head(threads[t].todo)
           target == IF threads[t].kind = "response"
                     THEN UpdateFromResponse(threads[t].body)[2]
                     ELSE UpdateFromTokenInfo(ParseTokenInfoFromResponse(threads[t].body)[2])
       IN /\ tokensLeft' = IF f = "tokensLeft" THEN target.tokensLeft ELSE tokensLeft
          /\ refillRate' = IF f = "refillRate" THEN target.refillRate ELSE refillRate
          /\ refillIn' = IF f = "refillIn" THEN target.refillIn ELSE refillIn
          /\ lastUpdate' = IF f = "lastUpdate" THEN target.lastUpdate ELSE lastUpdate
    /\ threads' = [threads EXCEPT ![t] =
                      [@ EXCEPT !.todo = Tail(@),
                                !.pc = IF Len(threads[t].todo) = 1 THEN "unlock" ELSE "write"]]
    /\ UNCHANGED <<now, fetchVars, mu, committed>>

\* defer tm.mu.Unlock(): the update is complete
ReleaseLock(t) ==
    /\ threads[t].pc = "unlock"
    /\ mu' = [mu EXCEPT !.writer = "none"]
    /\ committed' = committed \cup {Triple}
    /\ threads' = [threads EXCEPT ![t].pc = "done"]
    /\ UNCHANGED <<now, tmVars, fetchVars>>

\* A goroutine calls WaitIfNeeded, which calls ShouldWait; with rate
\* limiting disabled ShouldWait returns before the lock
BeginShouldWait(t) ==
    /\ threads[t].pc = "idle"
    /\ threads' = [threads EXCEPT ![t].pc = IF enableRateLimit THEN "rlock" ELSE "done"]
    /\ UNCHANGED <<now, tmVars, fetchVars, mu, committed>>

\* tm.mu.RLock(): granted when no goroutine holds the lock exclusively
AcquireRLock(t) ==
    /\ threads[t].pc = "rlock"
    /\ mu.writer = "none"
    /\ mu' = [mu EXCEPT !.readers = @ \cup {t}]
    /\ threads' = [threads EXCEPT ![t].pc = "readTokensLeft"]
    /\ UNCHANGED <<now, tmVars, fetchVars, committed>>

ReadPcs == {"readTokensLeft", "readRefillIn", "readRefillRate", "readTokensLeft2"}

\* One read of ShouldWait in program order: tokensLeft for the threshold
\* test, refillIn, refillRate when refillIn is below one second, tokensLeft
\* again for tokensNeeded when refillRate > 0
ReadField(t) ==
    /\ threads[t].pc \in ReadPcs
    /\ LET th == threads[t]
       IN threads' = [threads EXCEPT ![t] =
            IF th.pc = "readTokensLeft"
            THEN [th EXCEPT !.tl = tokensLeft, !.read = @ \cup {"tokensLeft"},
                            !.pc = IF tokensLeft < minTokensThreshold
                                   THEN "readRefillIn" ELSE "runlock"]
            ELSE IF th.pc = "readRefillIn"
            THEN [th EXCEPT !.ri = refillIn, !.read = @ \cup {"refillIn"},
                            !.pc = IF refillIn < Second THEN "readRefillRate" ELSE "runlock"]
            ELSE IF th.pc = "readRefillRate"
            THEN [th EXCEPT !.rr = refillRate, !.read = @ \cup {"refillRate"},
                            !.pc = IF refillRate > 0 THEN "readTokensLeft2" ELSE "runlock"]
            ELSE [th EXCEPT !.tl2 = tokensLeft, !.read = @ \cup {"tokensNeeded"},
                            !.pc = "runlock"]]
    /\ UNCHANGED <<now, tmVars, fetchVars, mu, committed>>

\* what ShouldWait returns from the values it has read
LocalShouldWait(th) ==
    IF ~(th.tl < minTokensThreshold) THEN <<FALSE, 0>>
    ELSE LET tokensNeeded == minTokensThreshold - th.tl2
             estimated == IF th.ri < Second /\ th.rr > 0 /\ tokensNeeded > 0
                          THEN (tokensNeeded * Minute) \div th.rr
                          ELSE th.ri
             capped == IF estimated > maxWaitTime THEN maxWaitTime ELSE estimated
         IN <<TRUE, IF capped < Second THEN Second ELSE capped>>

\* defer tm.mu.RUnlock() and the return of ShouldWait; when it returned
\* true WaitIfNeeded goes on to its log statement
ReleaseRLock(t) ==
    /\ threads[t].pc = "runlock"
    /\ mu' = [mu EXCEPT !.readers = @ \ {t}]
    /\ threads' = [threads EXCEPT ![t] =
                      [@ EXCEPT !.res = LocalShouldWait(threads[t]),
                                !.pc = IF LocalShouldWait(threads[t])[1] THEN "log" ELSE "done"]]
    /\ UNCHANGED <<now, tmVars, fetchVars, committed>>

\* WaitIfNeeded logs "waiting for token refill" with
\* zap.Int("tokens_left", tm.tokensLeft): a read after ShouldWait has
\* released the lock
LogRead(t) ==
    /\ threads[t].pc = "log"
    /\ threads' = [threads EXCEPT ![t].pc = "done"]
    /\ UNCHANGED <<now, tmVars, fetchVars, mu, committed>>

InitLock ==
    \E thr \in MinTokensThresholdCfg : InitWith(TRUE, TRUE, thr, 0, TRUE)

NextLock ==
    \/ \E t \in Writers, kind \in {"response", "info"}, body \in LockBodies :
          BeginObserve(t, kind, body)
    \/ \E t \in Writers : AcquireLock(t)
    \/ \E t \in Writers : WriteField(t)
    \/ \E t \in Writers : ReleaseLock(t)
    \/ \E t \in Readers : BeginShouldWait(t)
    \/ \E t \in Readers : AcquireRLock(t)
    \/ \E t \in Readers : ReadField(t)
    \/ \E t \in Readers : ReleaseRLock(t)
    \/ \E t \in Readers : LogRead(t)

SpecLock == InitLock /\ [][NextLock]_vars

\* ------------------------------------------------------------------------
\* The wait loop under the scheduling the runtime provides: time passes,
\* a timer that is due is delivered, and select, which picks at random
\* among the cases that are ready, eventually takes each case that stays
\* ready
\* ------------------------------------------------------------------------
SpecWaitFair ==
    /\ SpecWait
    /\ WF_vars(Advance)
    /\ WF_vars(WaitCtxDeadline)
    /\ WF_vars(WaitTick)
    /\ WF_vars(SleepDone)

\* ------------------------------------------------------------------------
\* The goroutines that WaitIfNeeded starts to watch its ctx: each blocks in
\* <-ctx.Done() and ends when that channel is closed.  A retryCtx is
\* cancelled by the deferred cancel() of the call that made it; the
\* caller's ctx is done when the caller cancels it or its deadline passes,
\* which may be never.
\* ------------------------------------------------------------------------
\* The caller's ctx is done after the call has left the function that was
\* given it (a retry is under way) or has returned
CallerCtxDoneLater ==
    /\ pc # "idle"
    /\ ~OuterFrame
    /\ watchers > 0
    /\ watchers' = 0
    /\ UNCHANGED <<now, tmVars, cfgVars, lockVars, compVars, pc, shape, ctxDone, waitVars,
                   episodeVars, n429, allRead, observeCalls, observeErr, waitCalls,
                   dispatched, lastResp, result, requestCtx, episodesSince, logged>>

InitWatch == InitWith(TRUE, TRUE, 6, 1500, TRUE)

NextWatch ==
    \/ \E s \in Shapes : StartFetch(s)
    \/ CancelCtx
    \/ CallerCtxDoneLater
    \/ WaitIfNeededEntry
    \/ WaitCtxDeadline
    \/ WaitOriginalCtxDone
    \/ WaitTick
    \/ SleepDone
    \/ \E build \in Builds, r \in Responses : Send(build, r)
    \/ Advance

SpecWatch == InitWatch /\ [][NextWatch]_vars

\* every step of the call is taken in the end; nothing makes the caller
\* cancel its ctx
SpecWatchFair ==
    /\ SpecWatch
    /\ WF_vars(Advance)
    /\ WF_vars(WaitIfNeededEntry)
    /\ WF_vars(WaitCtxDeadline)
    /\ WF_vars(WaitTick)
    /\ WF_vars(SleepDone)
    /\ WF_vars(\E build \in Builds, r \in Responses : Send(build, r))

\* ------------------------------------------------------------------------
\* TaskRegistry (package task)
\* ------------------------------------------------------------------------
\* the variables of the client, which the task framework leaves alone
clientVars == <<now, tmVars, cfgVars, pc, shape, ctxDone, waitVars, histVars, lockVars>>

\* a valid cron expression with seconds
EveryFiveMinutes == "0 */5 * * * *"
\* the tasks handed to Register: id tells two tasks of the same name apart
TaskPool == [name : {""} \cup TaskNames, id : {1, 2}, enabled : BOOLEAN,
             schedule : {"", EveryFiveMinutes}]

\* Register that binds the name to the new task before it reports the
\* duplicate
RegisterOverwrites(task) ==
    /\ registerArg' = task
    /\ IF task.name = ""
       THEN /\ registerErr' = "ErrEmptyTaskName"
            /\ UNCHANGED tasks
       ELSE /\ registerErr' = IF tasks[task.name] # NoTask
                              THEN "ErrTaskAlreadyRegistered" ELSE "nil"
            /\ tasks' = [tasks EXCEPT ![task.name] = task]
    /\ UNCHANGED <<clientVars, toolVars, schedVars, saverVars, extractVars>>

\* TaskRegistry.Register
Register(task) ==
    /\ registerArg' = task
    /\ IF task.name = ""
       THEN /\ registerErr' = "ErrEmptyTaskName"
            /\ UNCHANGED tasks
       ELSE IF tasks[task.name] # NoTask
       THEN /\ registerErr' = "ErrTaskAlreadyRegistered"
            /\ UNCHANGED tasks
       ELSE /\ tasks' = [tasks EXCEPT ![task.name] = task]
            /\ registerErr' = "nil"
    /\ UNCHANGED <<clientVars, toolVars, schedVars, saverVars, extractVars>>

\* GetEnabledTasks: the names of the registered tasks whose Enabled() is true
GetEnabledTasks == {n \in TaskNames : tasks[n] # NoTask /\ tasks[n].enabled}

InitRegistry == InitWith(TRUE, TRUE, 0, 0, TRUE)

NextRegistry == \E task \in TaskPool : Register(task)

SpecRegistry == InitRegistry /\ [][NextRegistry]_vars

\* ------------------------------------------------------------------------
\* extractASINCodes (package tasks)
\* ------------------------------------------------------------------------
\* []*model.KeepaASIN: an entry is nil or a KeepaASIN whose ASIN may be ""
NilASIN == [isNil |-> TRUE, ASIN |-> ""]
KeepaASIN(code) == [isNil |-> FALSE, ASIN |-> code]
ASINCodes == {"", "B001", "B002"}
ASINEntries == {NilASIN} \cup {KeepaASIN(code) : code \in ASINCodes}
ASINLists ==
    {[isNil |-> TRUE, items |-> <<>>]}
    \cup {[isNil |-> FALSE, items |-> l] : l \in UNION {[1..n -> ASINEntries] : n \in 0..MaxLen}}

\* the loop of extractASINCodes from entry i on, with the codes appended
\* and the codes seen so far
RECURSIVE ExtractLoop(_, _, _, _)
ExtractLoop(items, i, cs, seen) ==
    IF i > Len(items) THEN cs
    ELSE LET asin == items[i]
         IN IF ~asin.isNil /\ asin.ASIN # "" /\ asin.ASIN \notin seen
            THEN ExtractLoop(items, i + 1, Append(cs, asin.ASIN), seen \cup {asin.ASIN})
            ELSE ExtractLoop(items, i + 1, cs, seen)

\* the loop without the map of the codes seen
RECURSIVE ExtractLoopNoSeen(_, _, _)
ExtractLoopNoSeen(items, i, cs) ==
    IF i > Len(items) THEN cs
    ELSE LET asin == items[i]
         IN IF ~asin.isNil /\ asin.ASIN # ""
            THEN ExtractLoopNoSeen(items, i + 1, Append(cs, asin.ASIN))
            ELSE ExtractLoopNoSeen(items, i + 1, cs)

\* extractASINCodes keeping every occurrence of a code
extractASINCodesKeepsDuplicates(list) == ExtractLoopNoSeen(list.items, 1, <<>>)

\* extractASINCodes: ranging over a nil slice is ranging over no entry
extractASINCodes(list) == ExtractLoop(list.items, 1, <<>>, {})

\* A call of extractASINCodes with the list at hand
CallExtract ==
    /\ ~codes.returned
    /\ codes' = [returned |-> TRUE, value |-> extractASINCodes(asins)]
    /\ UNCHANGED <<asins, clientVars, toolVars, registryVars, schedVars, saverVars>>

InitExtract ==
    /\ InitOpts(TRUE, TRUE, 0, 0, TRUE, TRUE, FALSE, FALSE)
    /\ NewTaskRegistry
    /\ NewScheduler
    /\ NewKeepaRawDataSaver
    /\ asins \in ASINLists
    /\ codes = NoCodes
    /\ NoTools

NextExtract == CallExtract

SpecExtract == InitExtract /\ [][NextExtract]_vars

\* ------------------------------------------------------------------------
\* Scheduler (package scheduler) over the cron engine
\* ------------------------------------------------------------------------
\* the registered tasks the scheduler is built over
RegisteredTasks ==
    {NoTask} \cup {t \in TaskPool : t.name \in TaskNames /\ t.id = 1}

\* Stop holds s.mu from its call to its return
StopInProgress == stopPc \in {"select", "blocked", "chosen"}

\* addTask succeeds for a task with a schedule
Schedulable == {n \in GetEnabledTasks : tasks[n].schedule # ""}

\* Scheduler.Start: an error when already running; otherwise every enabled
\* task with a schedule gets a cron entry (an empty schedule is logged and
\* skipped), the cron engine is started and running is set
Start ==
    /\ ~StopInProgress
    /\ startCount < MaxStarts
    /\ startCount' = startCount + 1
    /\ IF running
       THEN UNCHANGED <<running, cronRunning, cronEntries, jobEntries>>
       ELSE /\ cronEntries' = [n \in TaskNames |->
                                 IF n \in Schedulable THEN cronEntries[n] + 1
                                 ELSE cronEntries[n]]
            /\ jobEntries' = jobEntries \cup Schedulable
            /\ cronRunning' = TRUE
            /\ running' = TRUE
    /\ UNCHANGED <<schedCtxCancelled, activeRuns, runCount, stopPc, stopCtxDone,
                   callerCtxDone, woken, stopResult, runsAtStop, ctxExpiredFirst,
                   clientVars, toolVars, registryVars, saverVars, extractVars>>

\* The running cron engine starts the wrapped function of an entry
CronFire(name) ==
    /\ cronRunning
    /\ cronEntries[name] > 0
    /\ runCount < MaxRuns
    /\ runCount' = runCount + 1
    /\ activeRuns' = activeRuns \cup {runCount + 1}
    /\ UNCHANGED <<running, cronRunning, cronEntries, jobEntries, schedCtxCancelled,
                   startCount, stopPc, stopCtxDone, callerCtxDone, woken, stopResult,
                   runsAtStop, ctxExpiredFirst,
                   clientVars, toolVars, registryVars, saverVars, extractVars>>

\* The wrapped function returns: t.Run is over and its result is logged
RunFinish(id) ==
    /\ id \in activeRuns
    /\ activeRuns' = activeRuns \ {id}
    /\ UNCHANGED <<running, cronRunning, cronEntries, jobEntries, schedCtxCancelled,
                   runCount, startCount, stopPc, stopCtxDone, callerCtxDone, woken,
                   stopResult, runsAtStop, ctxExpiredFirst,
                   clientVars, toolVars, registryVars, saverVars, extractVars>>

\* Scheduler.RemoveTask: the entry recorded for the name is taken out of
\* the cron engine and out of jobEntries
RemoveTask(name) ==
    /\ ~StopInProgress
    /\ name \in jobEntries
    /\ cronEntries' = [cronEntries EXCEPT ![name] = cronEntries[name] - 1]
    /\ jobEntries' = jobEntries \ {name}
    /\ UNCHANGED <<running, cronRunning, schedCtxCancelled, activeRuns, runCount,
                   startCount, stopPc, stopCtxDone, callerCtxDone, woken, stopResult,
                   runsAtStop, ctxExpiredFirst,
                   clientVars, toolVars, registryVars, saverVars, extractVars>>

\* Scheduler.Stop up to the select: nil at once when not running; otherwise
\* cron.Stop() halts the engine and hands back the stop context.
\* ctxd: the caller's ctx is done already
StopCall(ctxd) ==
    /\ ~StopInProgress
    /\ callerCtxDone' = ctxd
    /\ woken' = "none"
    /\ runsAtStop' = activeRuns
    /\ IF ~running
       THEN /\ stopResult' = "nil"
            /\ stopPc' = "returned"
            /\ ctxExpiredFirst' = FALSE
            /\ UNCHANGED <<cronRunning, stopCtxDone>>
       ELSE /\ cronRunning' = FALSE
            /\ stopCtxDone' = FALSE
            /\ stopResult' = "none"
            /\ stopPc' = "select"
            /\ ctxExpiredFirst' = ctxd
    /\ UNCHANGED <<running, cronEntries, jobEntries, schedCtxCancelled, activeRuns,
                   runCount, startCount,
                   clientVars, toolVars, registryVars, saverVars, extractVars>>

\* The goroutine of cron.Stop(): once no run is in flight the stop context
\* is done; a select blocked on it wakes
WaiterDone ==
    /\ running /\ ~cronRunning
    /\ ~stopCtxDone
    /\ activeRuns = {}
    /\ stopCtxDone' = TRUE
    /\ woken' = IF stopPc = "blocked" /\ woken = "none" THEN "stopCtx" ELSE woken
    /\ UNCHANGED <<running, cronRunning, cronEntries, jobEntries, schedCtxCancelled,
                   activeRuns, runCount, startCount, stopPc, callerCtxDone, stopResult,
                   runsAtStop, ctxExpiredFirst,
                   clientVars, toolVars, registryVars, saverVars, extractVars>>

\* The caller's ctx expires while Stop is under way; a select blocked on it
\* wakes
CtxExpire ==
    /\ StopInProgress
    /\ ~callerCtxDone
    /\ callerCtxDone' = TRUE
    /\ ctxExpiredFirst' = (ctxExpiredFirst \/ ~stopCtxDone)
    /\ woken' = IF stopPc = "blocked" /\ woken = "none" THEN "ctx" ELSE woken
    /\ UNCHANGED <<running, cronRunning, cronEntries, jobEntries, schedCtxCancelled,
                   activeRuns, runCount, startCount, stopPc, stopCtxDone, stopResult,
                   runsAtStop,
                   clientVars, toolVars, registryVars, saverVars, extractVars>>

\* the cases of Stop's select that can proceed
ReadyCases ==
    (IF stopCtxDone THEN {"stopCtx"} ELSE {}) \cup (IF callerCtxDone THEN {"ctx"} ELSE {})

\* Stop's select is evaluated: one of the ready cases is taken, or the
\* goroutine blocks when none is ready
StopSelect(choice) ==
    /\ stopPc = "select"
    /\ IF ReadyCases = {}
       THEN /\ choice = "none"
            /\ stopPc' = "blocked"
            /\ UNCHANGED woken
       ELSE /\ choice \in ReadyCases
            /\ stopPc' = "chosen"
            /\ woken' = choice
    /\ UNCHANGED <<running, cronRunning, cronEntries, jobEntries, schedCtxCancelled,
                   activeRuns, runCount, startCount, stopCtxDone, callerCtxDone,
                   stopResult, runsAtStop, ctxExpiredFirst,
                   clientVars, toolVars, registryVars, saverVars, extractVars>>

\* a Stop that reports nil whichever case its select took
StopReturnAlwaysNil ==
    /\ \/ stopPc = "chosen"
       \/ stopPc = "blocked" /\ woken # "none"
    /\ stopPc' = "returned"
    /\ schedCtxCancelled' = TRUE
    /\ running' = FALSE
    /\ stopResult' = "nil"
    /\ UNCHANGED <<cronRunning, cronEntries, jobEntries, activeRuns, runCount, startCount,
                   stopCtxDone, callerCtxDone, woken, runsAtStop, ctxExpiredFirst,
                   clientVars, toolVars, registryVars, saverVars, extractVars>>

\* Stop after its select: on the stop context s.cancel(), running = false
\* and nil; on the caller's ctx ctx.Err() with running left as it is
StopReturn ==
    /\ \/ stopPc = "chosen"
       \/ stopPc = "blocked" /\ woken # "none"
    /\ stopPc' = "returned"
    /\ IF woken = "stopCtx"
       THEN /\ schedCtxCancelled' = TRUE
            /\ running' = FALSE
            /\ stopResult' = "nil"
       ELSE /\ stopResult' = "ctxErr"
            /\ UNCHANGED <<schedCtxCancelled, running>>
    /\ UNCHANGED <<cronRunning, cronEntries, jobEntries, activeRuns, runCount, startCount,
                   stopCtxDone, callerCtxDone, woken, runsAtStop, ctxExpiredFirst,
                   clientVars, toolVars, registryVars, saverVars, extractVars>>

\* the scheduler is built over a registry that holds any of the tasks
InitSched ==
    /\ InitOpts(TRUE, TRUE, 0, 0, TRUE, TRUE, FALSE, FALSE)
    /\ tasks \in [TaskNames -> RegisteredTasks]
    /\ \A n \in TaskNames : tasks[n] = NoTask \/ tasks[n].name = n
    /\ registerArg = NoTask
    /\ registerErr = "none"
    /\ NewScheduler
    /\ NewKeepaRawDataSaver
    /\ NoExtract
    /\ NoTools

NextSched ==
    \/ Start
    \/ \E name \in TaskNames : CronFire(name)
    \/ \E id \in 1..MaxRuns : RunFinish(id)
    \/ \E name \in TaskNames : RemoveTask(name)
    \/ \E ctxd \in BOOLEAN : StopCall(ctxd)
    \/ WaiterDone
    \/ CtxExpire
    \/ \E choice \in {"none", "stopCtx", "ctx"} : StopSelect(choice)
    \/ StopReturn

SpecSched == InitSched /\ [][NextSched]_vars

\* ------------------------------------------------------------------------
\* KeepaRawDataSaver.FetchAndStoreAll (package tasks)
\* ------------------------------------------------------------------------
\* the sections of queriesConfig in the order FetchAndStoreAll reads them
APIs == <<"BestSellers", "CategoryLookup", "BrowsingDeals", "Products", "CategorySearches",
          "LightningDeals", "MostRatedSellers", "ProductFinder", "ProductSearches", "SellerInfo">>

\* KeepaQueryTaskConfig: Enabled, and whether mapTo...Params accepts Params
TaskConfigs == [Enabled : BOOLEAN, ParamsOk : BOOLEAN]
\* KeepaQueryAPIConfig
ApiConfigs == [Enabled : BOOLEAN,
               Tasks : UNION {[1..n -> TaskConfigs] : n \in 0..MaxTasks}]

ClearApi ==
    /\ taskIdx' = 1
    /\ attemptedTasks' = {}
    /\ fetchedTasks' = {}
    /\ savedTasks' = {}

\* FetchAndStoreAll is called and reads the first section, cfg
FetchAndStoreAll(cfg) ==
    /\ saverPc = "idle"
    /\ saverPc' = "api"
    /\ apiIdx' = 1
    /\ apiConfig' = cfg
    /\ ClearApi
    /\ UNCHANGED <<failures, saverResult, clientVars, toolVars, registryVars, schedVars, extractVars>>

\* fetchAndStore<API> is over, or the section is not enabled:
\* FetchAndStoreAll goes on to the next section, cfg, and after the last
\* returns nil
NextApi(cfg) ==
    /\ saverPc = "api"
    /\ ~apiConfig.Enabled \/ taskIdx > Len(apiConfig.Tasks)
    /\ IF apiIdx < Len(APIs)
       THEN /\ apiIdx' = apiIdx + 1
            /\ apiConfig' = cfg
            /\ ClearApi
            /\ UNCHANGED <<saverPc, saverResult>>
       ELSE /\ saverPc' = "done"
            /\ saverResult' = "nil"
            /\ UNCHANGED <<apiIdx, apiConfig, taskIdx, attemptedTasks, fetchedTasks, savedTasks>>
    /\ UNCHANGED <<failures, clientVars, toolVars, registryVars, schedVars, extractVars>>

\* One turn of the loop over the tasks where an error ends fetchAndStore<API>
ProcessTaskReturnsOnError(fetchOk, saveOk) ==
    /\ saverPc = "api"
    /\ apiConfig.Enabled
    /\ taskIdx <= Len(apiConfig.Tasks)
    /\ LET task == apiConfig.Tasks[taskIdx]
           failed == task.Enabled /\ ~(task.ParamsOk /\ fetchOk /\ saveOk)
       IN /\ taskIdx' = IF failed THEN Len(apiConfig.Tasks) + 1 ELSE taskIdx + 1
          /\ IF ~task.Enabled
             THEN UNCHANGED <<attemptedTasks, fetchedTasks, savedTasks, failures>>
             ELSE /\ attemptedTasks' = attemptedTasks \cup {taskIdx}
                  /\ fetchedTasks' = IF task.ParamsOk THEN fetchedTasks \cup {taskIdx}
                                     ELSE fetchedTasks
                  /\ savedTasks' = IF task.ParamsOk /\ fetchOk /\ saveOk
                                   THEN savedTasks \cup {taskIdx} ELSE savedTasks
                  /\ failures' = IF ~task.ParamsOk THEN failures \cup {"params"}
                                 ELSE IF ~fetchOk THEN failures \cup {"fetch"}
                                 ELSE IF ~saveOk THEN failures \cup {"save"}
                                 ELSE failures
    /\ UNCHANGED <<saverPc, apiIdx, apiConfig, saverResult,
                   clientVars, toolVars, registryVars, schedVars, extractVars>>

\* One turn of the loop over the tasks of an enabled section: a task that
\* is not enabled is passed over; otherwise the parameters are mapped, the
\* data fetched (fetchOk: service.Fetch returns no error) and saved (saveOk:
\* storage.SaveRawData returns no error), and each error is logged and
\* followed by continue
ProcessTask(fetchOk, saveOk) ==
    /\ saverPc = "api"
    /\ apiConfig.Enabled
    /\ taskIdx <= Len(apiConfig.Tasks)
    /\ taskIdx' = taskIdx + 1
    /\ LET task == apiConfig.Tasks[taskIdx]
       IN IF ~task.Enabled
          THEN UNCHANGED <<attemptedTasks, fetchedTasks, savedTasks, failures>>
          ELSE /\ attemptedTasks' = attemptedTasks \cup {taskIdx}
               /\ fetchedTasks' = IF task.ParamsOk THEN fetchedTasks \cup {taskIdx}
                                  ELSE fetchedTasks
               /\ savedTasks' = IF task.ParamsOk /\ fetchOk /\ saveOk
                                THEN savedTasks \cup {taskIdx} ELSE savedTasks
               /\ failures' = IF ~task.ParamsOk THEN failures \cup {"params"}
                              ELSE IF ~fetchOk THEN failures \cup {"fetch"}
                              ELSE IF ~saveOk THEN failures \cup {"save"}
                              ELSE failures
    /\ UNCHANGED <<saverPc, apiIdx, apiConfig, saverResult,
                   clientVars, toolVars, registryVars, schedVars, extractVars>>

InitSaver == InitWith(TRUE, TRUE, 0, 0, TRUE)

NextSaver ==
    \/ \E cfg \in ApiConfigs : FetchAndStoreAll(cfg)
    \/ \E cfg \in ApiConfigs : NextApi(cfg)
    \/ \E fetchOk \in BOOLEAN, saveOk \in BOOLEAN : ProcessTask(fetchOk, saveOk)

SpecSaver == InitSaver /\ [][NextSaver]_vars

\* ------------------------------------------------------------------------
\* CommandRegistry (package mmlclient)
\* ------------------------------------------------------------------------
\* the commands handed to Register
CommandPool ==
    [name : CommandNames,
     aliases : UNION {[1..n -> CommandNames] : n \in 0..2}]

\* the loop over cmd.Aliases() from the i-th alias on, on the map m:
\* <<error, map>>
RECURSIVE RegisterAliases(_, _, _)
RegisterAliases(m, cmd, i) ==
    IF i > Len(cmd.aliases) THEN <<"nil", m>>
    ELSE IF m[cmd.aliases[i]] # NoCommand THEN <<"alias already registered", m>>
    ELSE RegisterAliases([m EXCEPT ![cmd.aliases[i]] = cmd], cmd, i + 1)

\* CommandRegistry.Register
RegisterCommand(cmd) ==
    /\ IF commands[cmd.name] # NoCommand
       THEN /\ cmdErr' = "command already registered"
            /\ UNCHANGED commands
       ELSE LET res == RegisterAliases([commands EXCEPT ![cmd.name] = cmd], cmd, 1)
            IN /\ cmdErr' = res[1]
               /\ commands' = res[2]
    /\ UNCHANGED <<clientVars, taskVars, productVars, treeVars>>

\* CommandRegistry.Get: <<cmd, ok>>
Get(name) == <<commands[name], commands[name] # NoCommand>>

InitCommands ==
    /\ InitOpts(TRUE, TRUE, 0, 0, TRUE, TRUE, FALSE, FALSE)
    /\ NewTaskRegistry
    /\ NewScheduler
    /\ NewKeepaRawDataSaver
    /\ NoExtract
    /\ NoTools

NextCommands == \E cmd \in CommandPool : RegisterCommand(cmd)

SpecCommands == InitCommands /\ [][NextCommands]_vars

\* ------------------------------------------------------------------------
\* KeepaFetchProducts (package tasks) over KeepaRepository
\* ------------------------------------------------------------------------
DefaultBatchSize == 20
DefaultDomainID == 1

\* a record of keepa_asins
ASINRecords == [asin : ASINCodes, domain : {DefaultDomainID, 2}, fetched : BOOLEAN]

\* "if batchSize <= 0 || batchSize > 100"
NormalBatchSize(bs) == IF bs <= 0 \/ bs > 100 THEN DefaultBatchSize ELSE bs

\* KeepaRepository.GetPendingASINs: the indices of the first limit records
\* with detail_fetched = false, oldest first
GetPendingASINs(limit) ==
    LET pending == SelectSeq([i \in 1..Len(asinRecords) |-> i],
                             LAMBDA i : ~asinRecords[i].fetched)
    IN SubSeq(pending, 1, Min(limit, Len(pending)))

\* the codes extracted from the records of a batch
BatchCodes(batch) ==
    extractASINCodes([isNil |-> FALSE,
                      items |-> [k \in 1..Len(batch) |-> KeepaASIN(asinRecords[batch[k]].asin)]])

\* the codes of the batch at hand, as a set
PendingCodes ==
    LET cs == BatchCodes(GetPendingASINs(batchSize))
    IN {cs[k] : k \in 1..Len(cs)}

\* KeepaRepository.BatchUpdateASINDetailStatus(asins, domainID, true):
\* UpdateMany over the records with asin in asins and domain_id = domainID
BatchUpdateASINDetailStatus(cs, domainID) ==
    [i \in 1..Len(asinRecords) |->
        IF asinRecords[i].asin \in cs /\ asinRecords[i].domain = domainID
        THEN [asinRecords[i] EXCEPT !.fetched = TRUE]
        ELSE asinRecords[i]]

\* FetchProductDetailsWithBatchSize ("batch") or FetchAllProductDetails
\* ("all") is called with the batch size bs
StartFetchProducts(mode, bs) ==
    /\ fetchPc = "idle"
    /\ fetchPc' = "loop"
    /\ fetchMode' = mode
    /\ batchSize' = NormalBatchSize(bs)
    /\ UNCHANGED <<asinRecords, products, fetchErr, batchSaved,
                   clientVars, taskVars, cmdVars, treeVars>>

FetchReturn(err) ==
    /\ fetchPc' = "returned"
    /\ fetchErr' = err

\* One batch: the body of FetchProductDetailsWithBatchSize, or one turn of
\* the loop of FetchAllProductDetails.  ctxd: ctx is done; getOk, apiOk,
\* markOk: GetPendingASINs, service.Fetch with the parse of its answer, and
\* BatchUpdateASINDetailStatus return no error; returned: the ASINs of the
\* products in the answer; saveOk: the ASINs for which SaveProduct returns
\* no error.  The error of saveRawResponse is logged only, and
\* totalFetched, which nothing reads but the caller, is left out.
ProcessBatch(ctxd, getOk, apiOk, returned, saveOk, markOk) ==
    /\ fetchPc = "loop"
    /\ LET batch == GetPendingASINs(batchSize)
           cs == PendingCodes
           saved == IF cs = {} THEN {} ELSE returned \cap saveOk
       IN /\ returned \subseteq cs
          /\ IF fetchMode = "all" /\ ctxd
             THEN /\ FetchReturn("ctx")
                  /\ UNCHANGED <<asinRecords, products, batchSaved>>
             ELSE IF ~getOk
             THEN /\ FetchReturn("failed to get pending ASINs")
                  /\ UNCHANGED <<asinRecords, products, batchSaved>>
             ELSE IF batch = <<>>
             THEN /\ FetchReturn("nil")
                  /\ UNCHANGED <<asinRecords, products, batchSaved>>
             ELSE IF cs # {} /\ ~apiOk
             THEN /\ FetchReturn("failed to fetch products from API")
                  /\ UNCHANGED <<asinRecords, products, batchSaved>>
             ELSE /\ products' = products \cup saved
                  /\ batchSaved' = saved
                  /\ IF cs # {} /\ ~markOk
                     THEN /\ FetchReturn("failed to mark ASINs as fetched")
                          /\ UNCHANGED asinRecords
                     ELSE /\ asinRecords' = BatchUpdateASINDetailStatus(cs, DefaultDomainID)
                          /\ IF fetchMode = "batch"
                             THEN FetchReturn("nil")
                             ELSE UNCHANGED <<fetchPc, fetchErr>>
    /\ UNCHANGED <<fetchMode, batchSize, clientVars, taskVars, cmdVars, treeVars>>

\* the collection keepa_asins holds any records; keepa_products is empty
InitProducts ==
    /\ InitOpts(TRUE, TRUE, 0, 0, TRUE, TRUE, FALSE, FALSE)
    /\ NewTaskRegistry
    /\ NewScheduler
    /\ NewKeepaRawDataSaver
    /\ NoExtract
    /\ NewCommandRegistry
    /\ NewCategoryTreeHandler
    /\ asinRecords \in UNION {[1..n -> ASINRecords] : n \in 0..MaxRecords}
    /\ products = {}
    /\ fetchMode = "none"
    /\ fetchPc = "idle"
    /\ fetchErr = "none"
    /\ batchSize = 0
    /\ batchSaved = {}

ReturnedASINs == SUBSET (ASINCodes \ {""})

NextProducts ==
    \/ \E mode \in {"batch", "all"}, bs \in {0, 1, 2} : StartFetchProducts(mode, bs)
    \/ \E ctxd \in BOOLEAN, getOk \in BOOLEAN, apiOk \in BOOLEAN, markOk \in BOOLEAN,
          returned \in ReturnedASINs, saveOk \in ReturnedASINs :
          ProcessBatch(ctxd, getOk, apiOk, returned, saveOk, markOk)

SpecProducts == InitProducts /\ [][NextProducts]_vars

\* FetchAllProductDetails where every call of the API and of the
\* repository succeeds and ctx is never done
NextFetchAll ==
    \/ \E bs \in {0, 1, 2} : StartFetchProducts("all", bs)
    \/ \E returned \in ReturnedASINs :
          ProcessBatch(FALSE, TRUE, TRUE, returned, returned, TRUE)

SpecFetchAll == InitProducts /\ [][NextFetchAll]_vars

\* the caller calls, and the loop goes on as long as it has not returned
SpecFetchAllFair ==
    /\ SpecFetchAll
    /\ WF_vars(NextFetchAll)

\* ------------------------------------------------------------------------
\* CategoryTreeHandler.BuildCategoryTree (package handlers)
\* ------------------------------------------------------------------------
\* categorySvc.Fetch or parseCategoryResponse returns an error
FetchFailed == [ok |-> FALSE, CatID |-> 0, Children |-> <<>>]

\* What a call of categorySvc.Fetch and parseCategoryResponse gives for one
\* id: an error, or the category taken from the answer.  Its CatID is the
\* id asked for, or another one: without an entry for the id asked for
\* parseCategoryResponse takes the first category of the answer, and the
\* CatID of an entry is whatever the answer says.
CategoryAnswers ==
    {FetchFailed}
    \cup [ok : {TRUE}, CatID : CategoryIDs,
          Children : UNION {[1..n -> CategoryIDs] : n \in 0..MaxChildren}]

\* the lists of root ids of a request
RootLists == UNION {[1..n -> CategoryIDs] : n \in 1..MaxRoots}

\* BuildCategoryTree up to the loop over the roots
BuildCategoryTree(roots) ==
    /\ treePc = "idle"
    /\ treePc' = "building"
    /\ rootsTodo' = roots
    /\ UNCHANGED <<visited, fetchCount, treeNodes, stack,
                   clientVars, taskVars, cmdVars, productVars>>

\* buildCategoryTreeRecursive(id) called for the node parent (0 for a
\* root), down to its loop over the children: an error for an id already
\* visited; otherwise the id is marked, fetched and parsed, and on success
\* the node is made.  The caller appends the node it gets back, so the
\* place of the node is known when it is made.  callers: the calls under
\* way, the caller's loop moved on by one
Recurse(id, parent, answer, callers) ==
    IF id \in visited
    THEN /\ stack' = callers
         /\ UNCHANGED <<visited, fetchCount, treeNodes>>
    ELSE /\ visited' = visited \cup {id}
         /\ fetchCount' = [fetchCount EXCEPT ![id] = fetchCount[id] + 1]
         /\ IF ~answer.ok
            THEN /\ stack' = callers
                 /\ UNCHANGED treeNodes
            ELSE /\ treeNodes' = Append(treeNodes, [requested |-> id, cat |-> answer.CatID,
                                                    parent |-> parent])
                 /\ stack' = Append(callers, [node |-> Len(treeNodes) + 1,
                                              todo |-> answer.Children])

\* One turn of the loop over the roots
VisitRoot(answer) ==
    /\ treePc = "building"
    /\ stack = <<>>
    /\ rootsTodo # <<>>
    /\ Head(rootsTodo) \in visited => answer = FetchFailed   \* no call of the API
    /\ rootsTodo' = Tail(rootsTodo)
    /\ Recurse(Head(rootsTodo), 0, answer, <<>>)
    /\ UNCHANGED <<treePc, clientVars, taskVars, cmdVars, productVars>>

\* One turn of the loop over category.Children in the innermost call
VisitChild(answer) ==
    /\ treePc = "building"
    /\ stack # <<>>
    /\ stack[Len(stack)].todo # <<>>
    /\ Head(stack[Len(stack)].todo) \in visited => answer = FetchFailed   \* no call of the API
    /\ LET top == stack[Len(stack)]
           callers == [stack EXCEPT ![Len(stack)] = [top EXCEPT !.todo = Tail(top.todo)]]
       IN Recurse(Head(top.todo), top.node, answer, callers)
    /\ UNCHANGED <<treePc, rootsTodo, clientVars, taskVars, cmdVars, productVars>>

\* The innermost call has gone through its children and returns its tree
ReturnTree ==
    /\ treePc = "building"
    /\ stack # <<>>
    /\ stack[Len(stack)].todo = <<>>
    /\ stack' = SubSeq(stack, 1, Len(stack) - 1)
    /\ UNCHANGED <<treePc, rootsTodo, visited, fetchCount, treeNodes,
                   clientVars, taskVars, cmdVars, productVars>>

\* The loop over the roots is over: the forest is answered
Respond ==
    /\ treePc = "building"
    /\ stack = <<>>
    /\ rootsTodo = <<>>
    /\ treePc' = "done"
    /\ UNCHANGED <<rootsTodo, visited, fetchCount, treeNodes, stack,
                   clientVars, taskVars, cmdVars, productVars>>

InitTree ==
    /\ InitOpts(TRUE, TRUE, 0, 0, TRUE, TRUE, FALSE, FALSE)
    /\ NewTaskRegistry
    /\ NewScheduler
    /\ NewKeepaRawDataSaver
    /\ NoExtract
    /\ NoTools

NextTree ==
    \/ \E roots \in RootLists : BuildCategoryTree(roots)
    \/ \E answer \in CategoryAnswers : VisitRoot(answer)
    \/ \E answer \in CategoryAnswers : VisitChild(answer)
    \/ ReturnTree
    \/ Respond

SpecTree == InitTree /\ [][NextTree]_vars

\* the handler runs on to its answer
SpecTreeFair ==
    /\ SpecTree
    /\ WF_vars(NextTree)

\* ------------------------------------------------------------------------
\* Properties
\* ------------------------------------------------------------------------

\* a step in which WaitIfNeeded returns from a wait episode
EpisodeReturns == InEpisode /\ pc' \notin {"waiting", "sleeping"}

\* C1: when tokensLeft >= minTokensThreshold, or when rate limiting is
\* disabled (whatever tokensLeft is), ShouldWait returns (false, 0).
C1_ThresholdInvariant ==
    (tokensLeft >= minTokensThreshold \/ ~enableRateLimit) => ShouldWait = <<FALSE, 0>>

\* rate limiting disabled, a negative tokensLeft, and WaitIfNeeded has let
\* the call through
C1_Witness ==
    /\ ~enableRateLimit
    /\ tokensLeft < 0
    /\ pc = "send"
    /\ waitCalls = 1

\* C2 as stated: whenever ShouldWait returns (true, d), d lies in
\* [1 second, maxWaitTime], for every configured maxWaitTime.
C2_Original ==
    ShouldWait[1] => (Second <= ShouldWait[2] /\ ShouldWait[2] <= maxWaitTime)

\* C2 amended: whenever ShouldWait returns (true, d), d is at least one
\* second and at most the larger of maxWaitTime and one second.
C2_BoundedWait ==
    ShouldWait[1] => (Second <= ShouldWait[2] /\ ShouldWait[2] <= Max(maxWaitTime, Second))

\* a wait episode of one second under a ceiling below one second
C2_Witness ==
    /\ pc = "waiting"
    /\ maxWaitTime < Second
    /\ waitW = Second

\* C3 as stated: with the caller's context done, WaitIfNeeded does not
\* return before an update has made tokensLeft >= minTokensThreshold or the
\* wait w computed at its start has elapsed.
C3_Original ==
    [][(EpisodeReturns /\ ctxDone) => (now - waitStart >= waitW \/ refilledSince)]_vars

\* C3 amended: with the caller's context done, WaitIfNeeded does not return
\* before an update has made tokensLeft >= minTokensThreshold or has brought
\* the computed wait below two seconds, or the wait w computed at its start
\* has elapsed; the cancellation alone never ends the wait.
C3_CancellationIndependence ==
    [][(EpisodeReturns /\ ctxDone) =>
         (now - waitStart >= waitW \/ refilledSince \/ shortenedSince)]_vars

\* the cancellation was seen by the loop of a three-second episode, which
\* is still waiting two seconds later
C3_Witness ==
    /\ pc = "waiting"
    /\ originalCtxCanceled
    /\ waitW >= 3 * Second
    /\ now - waitStart >= 2 * Second
    /\ ~refilledSince
    /\ ~shortenedSince

\* C4: a wait episode never lasts longer than maxWaitTime (stated for the
\* ceilings of at least one second, below which no episode can comply
\* because ShouldWait never returns less than one second).
C4_Original ==
    [][(EpisodeReturns /\ maxWaitTime >= Second) => now - waitStart <= maxWaitTime]_vars

C6_Original ==
    pc = "done" => ~(result.kind = "error" /\ result.code = TooManyRequests)

\* C6 amended: a 429 is returned to the caller as an error only by a GET of
\* a client without TokenManager; the errors a call returns are those of
\* request construction, the missing credential, the transport (including
\* a body that cannot be read) and the HTTP status.
C6_RateLimitAbsorbed ==
    (pc = "done" /\ result.kind = "error") =>
        /\ result.code = TooManyRequests => (~tokenManager /\ shape = "GET")
        /\ result.err \in {"build", "accessKey", "transport", "read", "status"}
        /\ result.err = "status" => (result.code = lastResp.status /\ ~Is2xx(result.code))

\* a 429 was absorbed and the call ended with the error of a later answer
C6_Witness ==
    /\ pc = "done"
    /\ tokenManager
    /\ n429 >= 1
    /\ result.kind = "error"
    /\ result.code = 500

\* an answer that ends the call with an error
TerminalOutcome(r) ==
    r.status = TransportFailure \/ (~Is2xx(r.status) /\ r.status # TooManyRequests)

\* C7: a transport failure or a status outside 2xx other than 429 ends the
\* call at once with that error: the token state is unchanged, no wait is
\* started, nothing is dispatched afterwards; only a 429 precedes a
\* re-dispatch.
C7_TerminalErrors ==
    [][/\ (dispatched' = dispatched + 1 /\ TerminalOutcome(lastResp')) =>
            /\ pc' = "done"
            /\ result' = IF lastResp'.status = TransportFailure
                         THEN Error("transport", 0)
                         ELSE Error("status", lastResp'.status)
            /\ tokensLeft' = tokensLeft
            /\ refillRate' = refillRate
            /\ refillIn' = refillIn
            /\ lastUpdate' = lastUpdate
            /\ waitCalls' = waitCalls
       /\ (dispatched' = dispatched + 1 /\ dispatched >= 1) =>
            lastResp.status = TooManyRequests
       /\ pc = "done" =>
            (pc' = "done" /\ dispatched' = dispatched /\ waitCalls' = waitCalls)]_vars

\* a transport failure ended the call on the request sent after a 429
C7_Witness ==
    /\ pc = "done"
    /\ result = Error("transport", 0)
    /\ n429 = 1
    /\ dispatched = 2

\* C8: whenever an answer updates the token state, on the 2xx path and on
\* the 429 path, a field absent from the body keeps its previous value.
C8_Original ==
    [][observeCalls' = observeCalls + 1 =>
         /\ lastResp'.body.tokensLeft.k = "absent" => tokensLeft' = tokensLeft
         /\ lastResp'.body.refillRate.k = "absent" => refillRate' = refillRate
         /\ lastResp'.body.refillIn.k = "absent" => refillIn' = refillIn]_vars

\* an update of the TokenManager by the answer of another caller
ObserveStepWith(b) == OtherUpdateFromResponse(b) \/ OtherUpdate429(b)

\* the fields present in the body are the new values
PresentMatch(b) ==
    /\ b.tokensLeft.k = "num" => tokensLeft' = b.tokensLeft.v
    /\ b.refillRate.k = "num" => refillRate' = b.refillRate.v
    /\ b.refillIn.k = "num" => refillIn' = b.refillIn.v * Millisecond

\* C9 as stated: after an update from a JSON object, lastUpdate is strictly
\* greater than before and every token field present in the body has the
\* value of the body.
C9_Original ==
    [][\A b \in ObjectBodies :
         ObserveStepWith(b) => (lastUpdate' > lastUpdate /\ PresentMatch(b))]_vars

\* C9 amended: after an update from a JSON object, lastUpdate is the current
\* clock reading, not earlier than before, and every token field present in
\* the body has the value of the body.
C9_UpdateFreshness ==
    [][\A b \in ObjectBodies :
         ObserveStepWith(b) =>
            (lastUpdate' = now /\ lastUpdate' >= lastUpdate /\ PresentMatch(b))]_vars

\* an update made after the clock has moved, during a wait
C9_Witness ==
    /\ InEpisode
    /\ now >= Second
    /\ lastUpdate = now
    /\ tokensLeft = 5
    /\ refillIn = 3000 * Millisecond

\* C10: an update from bytes that are not JSON returns an error and leaves
\* tokensLeft, refillRate and refillIn as they were, on the 2xx path and on
\* the 429 path.
C10_MalformedBody ==
    [][(observeCalls' = observeCalls + 1 /\ ~lastResp'.body.valid) =>
         /\ observeErr' = "error"
         /\ tokensLeft' = tokensLeft
         /\ refillRate' = refillRate
         /\ refillIn' = refillIn]_vars

\* a 429 whose body is not JSON, received in a state set by an earlier
\* answer
C10_Witness ==
    /\ observeErr = "error"
    /\ lastResp.status = TooManyRequests
    /\ ~lastResp.body.valid
    /\ refillRate = 3
    /\ tokensLeft = 5

\* the fields a thread has read are those of the state c
ReadFrom(th, c) ==
    /\ "tokensLeft" \in th.read => th.tl = c.tokensLeft
    /\ "tokensNeeded" \in th.read => th.tl2 = c.tokensLeft
    /\ "refillRate" \in th.read => th.rr = c.refillRate
    /\ "refillIn" \in th.read => th.ri = c.refillIn

\* C11: under every interleaving of concurrent updates and concurrent
\* ShouldWait evaluations, what an evaluation has read so far, and what it
\* returns, is what one state of the token fields as it stood between two
\* updates gives; it never mixes the fields of two such states.
C11_NoTornRead ==
    \A t \in Readers :
        \E c \in committed :
            /\ ReadFrom(threads[t], c)
            /\ (threads[t].pc \in {"log", "done"} /\ enableRateLimit) =>
                   threads[t].res = ShouldWaitOf(c.tokensLeft, c.refillRate, c.refillIn,
                                                 minTokensThreshold, maxWaitTime, enableRateLimit)

\* an evaluation has read all three fields as an update left them, the
\* other evaluation waits for the lock that the second update holds in the
\* middle of its assignments
C11_Witness ==
    /\ threads["r1"].pc = "log"
    /\ threads["r1"].read = {"tokensLeft", "refillIn", "refillRate", "tokensNeeded"}
    /\ threads["r1"].tl = 0 - 3
    /\ threads["r1"].rr = 3
    /\ threads["r2"].pc = "rlock"
    /\ threads["w1"].pc = "done"
    /\ threads["w2"].pc = "write"
    /\ Len(threads["w2"].todo) = 2
    /\ mu.writer = "w2"

\* a goroutine holds the lock, shared or exclusively
HoldsLock(t) == t \in mu.readers \/ mu.writer = t

\* C12: every read of a token field is made under the lock and every write
\* under the exclusive lock, so that no goroutine is at an access to a token
\* field without the lock while an update is in the middle of its writes.
C12_Original ==
    \A t \in Threads :
        /\ threads[t].pc = "write" => mu.writer = t
        /\ (threads[t].pc \in (ReadPcs \cup {"log"}) /\ ~HoldsLock(t)) =>
               \A w \in Writers : threads[w].pc # "write"

\* C13: WaitIfNeeded never returns an error: whenever a call of it has
\* returned (no wait needed, tokens recovered at a recheck, deadline
\* elapsed with the tokens still insufficient, caller's cancellation seen),
\* its result is nil.
C13_WaitNeverFails ==
    /\ waitErr \in {"none", "nil"}
    /\ (waitCalls > 0 /\ ~InEpisode) => waitErr = "nil"

\* WaitIfNeeded has returned after a wait, with the caller's context
\* cancelled and the tokens still insufficient
C13_Witness ==
    /\ pc = "send"
    /\ waitErr = "nil"
    /\ now >= Second
    /\ ctxDone
    /\ ShouldWait[1]

\* C14: every call of WaitIfNeeded that waits eventually returns, also when
\* no update arrives, the tokens stay insufficient and the caller's context
\* is cancelled (its closed channel is ready at every turn of the loop);
\* the clock of the model stops at MaxTime, so a wait whose next timer lies
\* beyond it is followed up to there.
C14_WaitTerminates ==
    InEpisode ~> (~InEpisode \/ NextInstant > MaxTime)

\* the deadline of a three-second wait is due, the loop has seen the
\* caller's cancellation and the tokens are still insufficient
C14_Witness ==
    /\ pc = "waiting"
    /\ originalCtxCanceled
    /\ waitW >= 3 * Second
    /\ now >= waitDeadline
    /\ ShouldWait[1]
    /\ ~refilledSince

\* C15: a client without credential returns an error from each of the three
\* request functions and dispatches no HTTP request, whatever the token
\* state makes WaitIfNeeded do before.
C15_MissingCredential ==
    ~accessKey =>
        /\ dispatched = 0
        /\ lastResp = NoResponse
        /\ pc = "done" => (result.kind = "error" /\ result.err \in {"build", "accessKey"})

\* the POST with query parameters of a client without credential has
\* waited for tokens and ended with the credential error
C15_Witness ==
    /\ ~accessKey
    /\ shape = "POSTParams"
    /\ pc = "done"
    /\ result = Error("accessKey", 0)
    /\ waitCalls = 1
    /\ now >= Second

\* C16: when the caller's context is done at the moment the request is to
\* be sent (cancelled before the call or during the token wait), the
\* request is dispatched all the same, on a fresh context; only a failure
\* to build the request or the missing credential prevents the dispatch.
C16_FreshContext ==
    [][(pc = "send" /\ pc' # "send" /\ ctxDone
          /\ ~(pc' = "done" /\ result'.err \in {"build", "accessKey"})) =>
         (requestCtx' = "fresh" /\ dispatched' = dispatched + 1)]_vars

\* a request sent on a fresh context after the caller's context was
\* cancelled during the token wait got a 2xx answer
C16_Witness ==
    /\ pc = "done"
    /\ ctxDone
    /\ requestCtx = "fresh"
    /\ dispatched = 1
    /\ now >= Second
    /\ result.kind = "bytes"

\* C17: a 2xx answer whose body is not JSON is returned to the caller
\* byte for byte and without error; the token fields keep their values.
C17_UnparseableSuccess ==
    [][(dispatched' = dispatched + 1 /\ Is2xx(lastResp'.status) /\ lastResp'.readOk
          /\ ~lastResp'.body.valid) =>
         /\ pc' = "done"
         /\ result' = Bytes(lastResp'.body)
         /\ <<tokensLeft, refillRate, refillIn>>' = <<tokensLeft, refillRate, refillIn>>]_vars

\* a POST returned the bytes of a 2xx body that is not JSON, after the
\* TokenManager refused them
C17_Witness ==
    /\ pc = "done"
    /\ shape = "POST"
    /\ tokenManager
    /\ Is2xx(lastResp.status)
    /\ ~lastResp.body.valid
    /\ observeErr = "error"
    /\ result = Bytes(lastResp.body)

\* C18 as stated: a caller blocked in WaitIfNeeded while the tokens have
\* become sufficient looks at the state again within one ticker period,
\* and returns when it does.
C18_Original ==
    [][/\ (InEpisode /\ ~ShouldWait[1]) => NextInstant <= now + TickerPeriod
       /\ (pc = "waiting" /\ now >= nextTick /\ ~ShouldWait[1]
             /\ (pc' # pc \/ nextTick' # nextTick)) => ~InEpisode']_vars

\* C18 amended: a caller in the loop of WaitIfNeeded while the tokens have
\* become sufficient has its next recheck within one ticker period and
\* returns at it; a caller that a recheck has put into the final sleep is
\* not woken by an update and returns when the sleep ends, less than two
\* seconds after it began.
C18_RecheckRecovery ==
    [][/\ (pc = "waiting" /\ ~ShouldWait[1]) => NextInstant <= now + TickerPeriod
       /\ (pc = "waiting" /\ now >= nextTick /\ ~ShouldWait[1]
             /\ (pc' # pc \/ nextTick' # nextTick)) => ~InEpisode'
       /\ pc = "sleeping" =>
             /\ sleepUntil < now + ShortWait
             /\ pc' # pc => (~InEpisode' /\ now >= sleepUntil)]_vars

\* a three-second wait whose recheck is due before its deadline, after an
\* update of another caller has made the tokens sufficient
C18_Witness ==
    /\ pc = "waiting"
    /\ waitW >= 3 * Second
    /\ refilledSince
    /\ ~ShouldWait[1]
    /\ now = nextTick
    /\ now < waitDeadline

\* C19 as stated: every decision in WaitIfNeeded follows from the token
\* state as last written: a return while the tokens are insufficient comes
\* only when the episode has lasted the wait that state asks for, and the
\* recheck sleeps or goes on according to that state.
C19_Original ==
    [][/\ (pc = "waiting" /\ ~InEpisode' /\ ShouldWait[1]) =>
             now - waitStart >= ShouldWait[2]
       /\ (pc = "waiting" /\ pc' = "sleeping") =>
             (ShouldWait[1] /\ ShouldWait[2] < ShortWait /\ sleepUntil' = now + ShouldWait[2])
       /\ (pc = "waiting" /\ pc' = "waiting" /\ nextTick' # nextTick) =>
             (ShouldWait[1] /\ ShouldWait[2] >= ShortWait)]_vars

\* C19 amended: the decisions of the recheck (return, final sleep and its
\* length, go on) follow from the token state as last written; the
\* deadline of the episode is the wait computed when the episode started,
\* it is not recomputed, and when it has elapsed the call returns whatever
\* the state says.
C19_DecisionSources ==
    [][/\ (pc = "waiting" /\ ~InEpisode' /\ ShouldWait[1]) =>
             now - waitStart >= waitW
       /\ (pc = "waiting" /\ pc' = "sleeping") =>
             (ShouldWait[1] /\ ShouldWait[2] < ShortWait /\ sleepUntil' = now + ShouldWait[2])
       /\ (pc = "waiting" /\ pc' = "waiting" /\ nextTick' # nextTick) =>
             (ShouldWait[1] /\ ShouldWait[2] >= ShortWait)
       /\ InEpisode => waitDeadline = waitStart + waitW
       /\ (pc = "waiting" /\ now >= waitDeadline /\ pc' # pc /\ now < nextTick) =>
             ~InEpisode']_vars

\* the deadline computed at the start is due while the state written since
\* asks for a longer wait
C19_Witness ==
    /\ pc = "waiting"
    /\ now >= waitDeadline
    /\ ShouldWait[1]
    /\ ShouldWait[2] > waitW
    /\ now < nextTick

\* ShouldWait's wait before the ceiling and the floor, on the current state
WaitBeforeClamp == EstimatedWaitTime(tokensLeft, refillRate, refillIn, minTokensThreshold)

\* C20 as stated: with rate limiting enabled and tokensLeft below the
\* threshold, the wait before clamping is ceil((minTokensThreshold -
\* tokensLeft) / refillRate) whole minutes when refillIn is below one second
\* (refillRate > 0), and refillIn otherwise.
C20_Original ==
    (enableRateLimit /\ tokensLeft < minTokensThreshold /\ refillRate > 0) =>
        WaitBeforeClamp =
            IF refillIn < Second
            THEN ((minTokensThreshold - tokensLeft + refillRate - 1) \div refillRate) * Minute
            ELSE refillIn

\* C20 amended: when refillIn is below one second and refillRate > 0 the
\* wait before clamping is the quotient (minTokensThreshold - tokensLeft) /
\* refillRate in minutes with its fraction, truncated to the clock's unit
\* and not rounded up to whole minutes; otherwise it is refillIn.
C20_Estimate ==
    (enableRateLimit /\ tokensLeft < minTokensThreshold) =>
        IF refillIn < Second /\ refillRate > 0
        THEN /\ refillRate * WaitBeforeClamp <= (minTokensThreshold - tokensLeft) * Minute
             /\ (minTokensThreshold - tokensLeft) * Minute < refillRate * (WaitBeforeClamp + 1)
        ELSE WaitBeforeClamp = refillIn

\* a wait of 160 seconds started for 8 missing tokens at 3 tokens a minute
C20_Witness ==
    /\ pc = "waiting"
    /\ minTokensThreshold - tokensLeft = 8
    /\ refillRate = 3
    /\ refillIn < Second
    /\ waitW = 160 * Second
    /\ WaitBeforeClamp = waitW

\* C21: every update of the TokenManager made with a response body, be it
\* a JSON object with or without token fields or bytes that are not JSON,
\* sets lastUpdate to the current time.
C21_Original ==
    [][observeCalls' = observeCalls + 1 => lastUpdate' = now]_vars

C28_Original ==
    [][(dispatched' = dispatched + 1 /\ lastResp.status = TooManyRequests) =>
         episodesSince <= 1]_vars

\* C29: a client without credential returns the credential error without
\* entering a wait episode first, also when the token state asks for a wait.
C29_Original ==
    ~accessKey => (~InEpisode /\ episodesSince = 0)

\* C30: while no answer has updated the TokenManager of a client with rate
\* limiting enabled (tokensLeft, refillRate and refillIn are 0 and the
\* threshold is at least 1), ShouldWait returns (true, one second), and the
\* first request is not sent before a wait episode of at least that length.
C30_FreshCoordinatorWaits ==
    (tokenManager /\ enableRateLimit /\ observeCalls = 0) =>
        /\ <<tokensLeft, refillRate, refillIn>> = <<0, 0, 0>>
        /\ minTokensThreshold >= 1
        /\ ShouldWait = <<TRUE, Second>>
        /\ pc = "preWait" => (dispatched = 0 => (now = 0 /\ episodesSince = 0))
        /\ (pc = "send" \/ dispatched >= 1) => (now >= Second /\ waitCalls >= 1)

\* the first request of a client is about to be sent, one second after the
\* call began, with the token state as NewTokenManager left it
C30_Witness ==
    /\ pc = "send"
    /\ tokenManager
    /\ enableRateLimit
    /\ observeCalls = 0
    /\ dispatched = 0
    /\ episodesSince = 1
    /\ now = Second
    /\ tokensLeft = 0

\* what a Send step leaves, written from its inputs without the print
\* options: the result, the number of requests sent and the token state
SendOutcome(build, r) ==
    LET sent == build = "ok" /\ accessKey
        absorbed == tokenManager \/ shape # "GET"
    IN [dispatched |-> IF sent THEN dispatched + 1 ELSE dispatched,
        result |-> IF build = "url" THEN Error("build", 0)
                   ELSE IF ~accessKey THEN Error("accessKey", 0)
                   ELSE IF build = "request" THEN Error("build", 0)
                   ELSE IF r.status = TransportFailure THEN Error("transport", 0)
                   ELSE IF r.status = TooManyRequests
                   THEN (IF absorbed THEN result ELSE Error("status", r.status))
                   ELSE IF ~Is2xx(r.status) THEN Error("status", r.status)
                   ELSE IF r.readOk THEN Bytes(r.body) ELSE Error("read", 0),
        returns |-> ~(sent /\ r.status = TooManyRequests /\ absorbed),
        state |-> IF sent /\ tokenManager /\ r.readOk /\ r.status = TooManyRequests
                  THEN Update429(r.body)[2]
                  ELSE IF sent /\ tokenManager /\ r.readOk /\ Is2xx(r.status)
                  THEN UpdateFromResponse(r.body)[2]
                  ELSE TokenState]

\* C23: the logger and the options printCurlCommand and printResponseBody
\* change nothing but the log: from the same state and with the same answer
\* of the server, a request function leaves the same result, the same
\* number of dispatched requests and the same token state under every
\* setting of them, and continues or returns alike; with the options off
\* their log entries do not exist.
C23_DiagnosticsInert ==
    [][/\ (pc = "send" /\ dispatched' # dispatched) =>
            /\ dispatched' = SendOutcome("ok", lastResp').dispatched
            /\ result' = SendOutcome("ok", lastResp').result
            /\ TokenState' = SendOutcome("ok", lastResp').state
            /\ (pc' = "done") = SendOutcome("ok", lastResp').returns
       /\ (pc = "send" /\ pc' # pc /\ dispatched' = dispatched) =>
            \E build \in Builds :
                /\ build # "ok" \/ ~accessKey
                /\ result' = SendOutcome(build, lastResp).result
                /\ TokenState' = SendOutcome(build, lastResp).state
                /\ (pc' = "done") = SendOutcome(build, lastResp).returns
       /\ logged' # logged => (pc = "send" /\ logger /\ (printCurlCommand \/ printResponseBody))]_vars

\* with both options on, a call whose first request got a 429 returned the
\* bytes of the 2xx answer to its second request, the token state updated
\* from it, and both options have written their entries
C23_Witness ==
    /\ pc = "done"
    /\ printCurlCommand
    /\ printResponseBody
    /\ tokenManager
    /\ "sending HTTP request: curl_command" \in logged
    /\ "Keepa API response received: response_body" \in logged
    /\ n429 = 1
    /\ dispatched = 2
    /\ result = Bytes(lastResp.body)
    /\ lastResp.body.tokensLeft = NumF(5)
    /\ tokensLeft = 5

\* C25: Register with an empty name returns ErrEmptyTaskName, with a name
\* that is already registered ErrTaskAlreadyRegistered, and in both cases
\* leaves the registry as it was, the first task still bound to the name;
\* any other call binds the name to the task and returns nil.
C25_RegisterRejectsDuplicates ==
    [][registerArg' # registerArg \/ registerErr' # registerErr \/ tasks' # tasks =>
         LET task == registerArg'
         IN IF task.name = ""
            THEN registerErr' = "ErrEmptyTaskName" /\ tasks' = tasks
            ELSE IF tasks[task.name] # NoTask
            THEN registerErr' = "ErrTaskAlreadyRegistered" /\ tasks' = tasks
            ELSE /\ registerErr' = "nil"
                 /\ tasks'[task.name] = task
                 /\ \A n \in TaskNames \ {task.name} : tasks'[n] = tasks[n]]_vars

\* a second task named "a" was refused and the first is still registered
C25_Witness ==
    /\ registerErr = "ErrTaskAlreadyRegistered"
    /\ registerArg.name = "a"
    /\ registerArg.id = 2
    /\ tasks["a"].id = 1
    /\ tasks["b"] # NoTask

\* the position of the first entry of the list that carries the code c
FirstOccurrence(c) ==
    CHOOSE k \in 1..Len(asins.items) :
        /\ ~asins.items[k].isNil
        /\ asins.items[k].ASIN = c
        /\ \A j \in 1..(k - 1) : asins.items[j].isNil \/ asins.items[j].ASIN # c

\* C27: for every list (nil, empty, with nil entries, with empty codes,
\* with repeated codes) extractASINCodes returns the non-empty codes of the
\* list, each once, in the order of their first occurrence.
C27_ExtractDistinctInOrder ==
    codes.returned =>
        LET out == codes.value
        IN /\ {out[i] : i \in 1..Len(out)} =
                  {asins.items[k].ASIN : k \in {j \in 1..Len(asins.items) :
                                                    ~asins.items[j].isNil /\ asins.items[j].ASIN # ""}}
           /\ \A i, j \in 1..Len(out) : i < j =>
                  /\ out[i] # out[j]
                  /\ FirstOccurrence(out[i]) < FirstOccurrence(out[j])

\* a list with a nil entry and a repeated code, the code returned once
C27_Witness ==
    /\ codes.returned
    /\ asins.items = <<KeepaASIN("B002"), NilASIN, KeepaASIN("B002")>>
    /\ codes.value = <<"B002">>

\* the tasks of the section at hand that are to be attempted
EnabledTasks ==
    IF apiConfig.Enabled
    THEN {i \in 1..Len(apiConfig.Tasks) : apiConfig.Tasks[i].Enabled}
    ELSE {}

StopReturns == stopPc # "returned" /\ stopPc' = "returned"

C34_Original == ~StopInProgress => (running <=> cronRunning)

\* C35: every task name has at most one entry in the cron engine, and has
\* one exactly when jobEntries records the name.
C35_Original ==
    \A n \in TaskNames :
        /\ cronEntries[n] <= 1
        /\ cronEntries[n] = 1 <=> n \in jobEntries

\* C36: a task run that begins gets a context derived from an s.ctx that is
\* not cancelled.
C36_Original == [][runCount' = runCount + 1 => ~schedCtxCancelled]_vars

\* C32: the token state, and with it the result of ShouldWait, changes only
\* in a step that hands an answer to UpdateFromResponse or
\* UpdateFromTokenInfo: ShouldWait, WaitIfNeeded, the dispatch of a request
\* and the passing of time leave tokensLeft, refillRate, refillIn and
\* lastUpdate as they are.
C32_OnlyObserveWrites ==
    [][(tmVars' # tmVars \/ ShouldWait' # ShouldWait) =>
          observeCalls' = observeCalls + 1]_vars

\* the call has waited, dispatched a request that got no answer and ended,
\* and the token state is the one NewTokenManager made
C32_Witness ==
    /\ pc = "done"
    /\ tokenManager
    /\ waitCalls >= 1
    /\ dispatched >= 1
    /\ observeCalls = 0
    /\ now > 0
    /\ tmVars = <<0, 0, 0, 0>>

\* C33: the goroutines that watch the caller's ctx for WaitIfNeeded do not
\* pile up (at most the one of the running episode is alive), and once the
\* call has returned every one of them ends, also when the caller never
\* cancels its ctx.
C33_Original ==
    /\ [](watchers <= 1)
    /\ (pc = "done") ~> (watchers = 0)

\* the outcome class of DoRequest and GetRawData for the answer r: bytes,
\* a terminal error, or a retry
GetOutcomeClass(r) ==
    IF r.status = TransportFailure THEN "error"
    ELSE IF r.status = TooManyRequests THEN (IF tokenManager THEN "retry" ELSE "error")
    ELSE IF ~Is2xx(r.status) THEN "error"
    ELSE IF r.readOk THEN "bytes" ELSE "error"

\* C31: for the same configuration and the same answer of the server the
\* three request shapes end in the same outcome class: whatever the shape,
\* a dispatched request is followed by what GetRawData does with the
\* answer, in particular for a 429 without TokenManager.
C31_Original ==
    [][(pc = "send" /\ dispatched' = dispatched + 1) =>
          GetOutcomeClass(lastResp') =
              (IF pc' # "done" THEN "retry"
               ELSE IF result'.kind = "bytes" THEN "bytes" ELSE "error")]_vars

\* C37: a call of CommandRegistry.Register that returns an error leaves the
\* registry as it was, so that Get resolves every name as before.
C37_Original ==
    [][cmdErr' \notin {"none", "nil"} =>
          \A n \in CommandNames : Get(n)' = Get(n)]_vars

\* C38: with every call of the API and of the repository succeeding and a
\* ctx that is never done, FetchAllProductDetails returns for every content
\* of keepa_asins, and when it has returned nil no record is pending.
C38_Original ==
    /\ (fetchPc = "loop") ~> (fetchPc = "returned")
    /\ [](fetchPc = "returned" /\ fetchErr = "nil" =>
             \A i \in 1..Len(asinRecords) : asinRecords[i].fetched)

\* C39: a record is marked detail_fetched = true only when the product of
\* its ASIN was saved in the same batch; a record whose product the API did
\* not return or whose save failed stays pending.
C39_Original ==
    [][\A i \in 1..Len(asinRecords) :
          (~asinRecords[i].fetched /\ asinRecords'[i].fetched) =>
              asinRecords[i].asin \in batchSaved']_vars

\* C40 as stated: in one request every category id is fetched at most
\* once, no CatID stands at two places of the forest, and the request comes
\* to its end.
C40_Original ==
    /\ [](\A id \in CategoryIDs : fetchCount[id] <= 1)
    /\ [](\A i, j \in 1..Len(treeNodes) : treeNodes[i].cat = treeNodes[j].cat => i = j)
    /\ (treePc = "building") ~> (treePc = "done")

====
